---------------------------- MODULE Spec2Model ----------------------------
(***************************************************************************)
(* taskledger: task categorization (internal/report/categorize.go), the    *)
(* non-feature policy and ticket-ID extraction (internal/jira/jira.go),    *)
(* and the section partition of the text report.                           *)
(*                                                                         *)
(* A Go string is modelled as the sequence of its bytes (ASCII codes), so  *)
(* that case folding, substring search, the two regular expressions and    *)
(* the lexicographic comparison of dates are computed as the code computes *)
(* them.  The empty string is << >>.                                       *)
(***************************************************************************)
EXTENDS Integers, Sequences, FiniteSets, TLC

VARIABLES
    workData,         \* argument of CategorizeTasks: date -> DailyLog
    dates,            \* argument of CategorizeTasks: the date sequence
    di,               \* position of the outer loop (index into dates)
    ti,               \* position of the inner loop (index into dailyLog.Tasks)
    completedTasks,   \* map key -> sequence of TaskWithDate
    allNextUpTasks,   \* map key -> sequence of TaskWithDate
    mostRecentTasks,  \* map taskKey -> TaskWithDate
    pc,               \* "loop" | "done" (CategorizeTasks), "call" | "returned"
    result,           \* the CategorizedTasks returned (NoResult before the return)
    call,             \* a call of IsNonFeatureWork / ExtractTicketID: its arguments
    ret,              \* what that call returned
    out               \* the lines written to the report's io.Writer

vars == << workData, dates, di, ti, completedTasks, allNextUpTasks,
           mostRecentTasks, pc, result, call, ret, out >>

----------------------------------------------------------------------------
(* Bounds of the model *)

\* total number of task records in a work log
MaxTasks == 2

\* length of the generated part of a ticket reference
MaxBodyLen == 4

----------------------------------------------------------------------------
(* String literals of the program and of the inputs *)

EmptyString == << >>

\* "completed"
StatusCompleted == <<99, 111, 109, 112, 108, 101, 116, 101, 100>>
\* "in progress"
StatusInProgress == <<105, 110, 32, 112, 114, 111, 103, 114, 101, 115, 115>>
\* "not started"
StatusNotStarted == <<110, 111, 116, 32, 115, 116, 97, 114, 116, 101, 100>>
\* "__empty__"
emptyTicketKey == <<95, 95, 101, 109, 112, 116, 121, 95, 95>>
\* "NO-JIRA"
NoJiraMarker == <<78, 79, 45, 74, 73, 82, 65>>
\* "https://issues.redhat.com"
BaseURL == <<104, 116, 116, 112, 115, 58, 47, 47, 105, 115, 115, 117, 101, 115,
             46, 114, 101, 100, 104, 97, 116, 46, 99, 111, 109>>
\* "/browse/"
BrowsePath == <<47, 98, 114, 111, 119, 115, 101, 47>>
\* "has-pr"
HasPrArg == <<104, 97, 115, 45, 112, 114>>

\* inputs: statuses
\* "Completed"
InCompletedCap == <<67, 111, 109, 112, 108, 101, 116, 101, 100>>
\* "In Progress"
InInProgressCap == <<73, 110, 32, 80, 114, 111, 103, 114, 101, 115, 115>>
\* "on hold"
InOnHold == <<111, 110, 32, 104, 111, 108, 100>>
\* inputs: keys
\* "SCR-2"
KeySCR2 == <<83, 67, 82, 45, 50>>
\* "NO-JIRA: cleanup"
KeyNoJiraCleanup == <<78, 79, 45, 74, 73, 82, 65, 58, 32, 99, 108, 101, 97, 110, 117, 112>>
\* "no-jira: "
KeyNoJiraLower == <<110, 111, 45, 106, 105, 114, 97, 58, 32>>
\* the URL form of SCR-2: "https://issues.redhat.com/browse/SCR-2"
KeySCR2URL == BaseURL \o BrowsePath \o KeySCR2
\* inputs: dates
\* "2025-01-01"
Date1 == <<50, 48, 50, 53, 45, 48, 49, 45, 48, 49>>
\* "2025-01-02"
Date2 == <<50, 48, 50, 53, 45, 48, 49, 45, 48, 50>>
\* inputs: free text
\* "next"
TxtNext == <<110, 101, 120, 116>>
\* "wait"
TxtWait == <<119, 97, 105, 116>>
\* "pr/1"
TxtPr1 == <<112, 114, 47, 49>>
\* "pr/2"
TxtPr2 == <<112, 114, 47, 50>>
\* "did"
TxtDid == <<100, 105, 100>>
\* "more"
TxtMore == <<109, 111, 114, 101>>

----------------------------------------------------------------------------
(* Go's strings package and string comparison, on byte sequences *)

IsUpper(c) == c \in 65..90
IsLower(c) == c \in 97..122
IsDigit(c) == c \in 48..57
\* a word character of RE2's \b (ASCII): [0-9A-Za-z_]
IsWord(c) == IsUpper(c) \/ IsLower(c) \/ IsDigit(c) \/ c = 95

UpperByte(c) == IF IsLower(c) THEN c - 32 ELSE c

\* strings.ToUpper
ToUpper(s) == [i \in 1..Len(s) |-> UpperByte(s[i])]

\* strings.EqualFold (simple case folding; the inputs are ASCII)
EqualFold(s, t) ==
    /\ Len(s) = Len(t)
    /\ \A i \in 1..Len(s) : UpperByte(s[i]) = UpperByte(t[i])

\* the positions at which sub occurs in s
Occurrences(s, sub) ==
    { i \in 1..(Len(s) - Len(sub) + 1) : SubSeq(s, i, i + Len(sub) - 1) = sub }

\* strings.Contains
Contains(s, sub) == Len(sub) = 0 \/ Occurrences(s, sub) # {}

\* s < t for Go strings: lexicographic comparison of the bytes, decided at
\* the first position where they differ, a proper prefix being smaller
StrLess(s, t) ==
    LET n    == IF Len(s) < Len(t) THEN Len(s) ELSE Len(t)
        diff == { i \in 1..n : s[i] # t[i] }
    IN  IF diff = {} THEN Len(s) < Len(t)
        ELSE LET i == CHOOSE j \in diff : \A k \in diff : j <= k
             IN  s[i] < t[i]

\* date > existing.Date
StrGreater(s, t) == StrLess(t, s)

Min(S) == CHOOSE x \in S : \A y \in S : x <= y

----------------------------------------------------------------------------
(* internal/jira: ExtractTicketID *)

\* [A-Z]+ from position i, greedy: the last index of the maximal run of
\* upper-case letters that starts at i (i - 1 when there is none)
UpperRunEnd(s, i) ==
    CHOOSE j \in (i - 1)..Len(s) :
        /\ \A k \in i..j : IsUpper(s[k])
        /\ (j = Len(s) \/ ~IsUpper(s[j + 1]))

\* \d+ from position i, greedy: the last index of the maximal run of digits
\* that starts at i (i - 1 when there is none)
DigitRunEnd(s, i) ==
    CHOOSE j \in (i - 1)..Len(s) :
        /\ \A k \in i..j : IsDigit(s[k])
        /\ (j = Len(s) \/ ~IsDigit(s[j + 1]))

\* [A-Z]+-\d+ matched greedily from position i: the index of the last byte of
\* the match, 0 when there is no match at i
IDMatchEnd(s, i) ==
    LET j == UpperRunEnd(s, i)
        k == DigitRunEnd(s, j + 2)
    IN  IF i >= 1 /\ j >= i /\ j + 1 <= Len(s) /\ s[j + 1] = 45 /\ k >= j + 2
        THEN k ELSE 0

\* \b at the gap before position i
WordBoundary(s, i) ==
    LET before == i - 1 >= 1 /\ i - 1 <= Len(s) /\ IsWord(s[i - 1])
        after  == i >= 1 /\ i <= Len(s) /\ IsWord(s[i])
    IN  before # after

\* urlRegex: https://issues\.redhat\.com/browse/([A-Z]+-\d+)
\* the set of positions of the prefix whose continuation is an ID
urlRegexStarts(s) ==
    { i \in Occurrences(s, BaseURL \o BrowsePath) :
        IDMatchEnd(s, i + Len(BaseURL \o BrowsePath)) # 0 }

\* ticketRegex: \b([A-Z]+-\d+)\b, the set of positions where it matches;
\* a shorter run of letters or digits never matches, the byte after it being
\* a word character like the one before
ticketRegexStarts(s) ==
    { i \in 1..Len(s) :
        /\ WordBoundary(s, i)
        /\ IDMatchEnd(s, i) # 0
        /\ WordBoundary(s, IDMatchEnd(s, i) + 1) }

ExtractTicketID(input) ==
    IF urlRegexStarts(input) # {}
    THEN LET i == Min(urlRegexStarts(input)) + Len(BaseURL \o BrowsePath)
         IN  SubSeq(input, i, IDMatchEnd(input, i))
    ELSE IF ticketRegexStarts(input) # {}
    THEN LET i == Min(ticketRegexStarts(input))
         IN  SubSeq(input, i, IDMatchEnd(input, i))
    ELSE EmptyString

----------------------------------------------------------------------------
(* internal/report/categorize.go: IsNonFeatureWork *)

\* the variant in which a marked key with a PR falls through to the ID check
IsNonFeatureWork_MarkerFallsThrough(ticket, githubPR) ==
    IF ticket = EmptyString THEN TRUE
    ELSE IF Contains(ToUpper(ticket), NoJiraMarker) /\ githubPR = EmptyString THEN TRUE
    ELSE IF ExtractTicketID(ticket) = EmptyString THEN TRUE
    ELSE FALSE

\* the variant without the ID check
IsNonFeatureWork_NoIDCheck(ticket, githubPR) ==
    IF ticket = EmptyString THEN TRUE
    ELSE IF Contains(ToUpper(ticket), NoJiraMarker) THEN githubPR = EmptyString
    ELSE FALSE

IsNonFeatureWork(ticket, githubPR) ==
    IF ticket = EmptyString THEN TRUE
    ELSE IF Contains(ToUpper(ticket), NoJiraMarker) THEN githubPR = EmptyString
    ELSE IF ExtractTicketID(ticket) = EmptyString THEN TRUE
    ELSE FALSE

----------------------------------------------------------------------------
(* internal/model/model.go *)

\* model.Task (QCGoal is read by no code modelled here and is left out)
NewTask(status, description, descriptions, jiraTicket, upnext, githubPR, blocker) ==
    [ Status            |-> status,
      Description       |-> description,
      Descriptions      |-> descriptions,
      JiraTicket        |-> jiraTicket,
      UpnextDescription |-> upnext,
      GithubPR          |-> githubPR,
      Blocker           |-> blocker ]

\* model.TaskWithDate
NewTaskWithDate(task, date) == [ Task |-> task, Date |-> date ]

\* Task.GetDescriptions
GetDescriptions(t) ==
    (IF t.Description # EmptyString THEN << t.Description >> ELSE << >>)
        \o t.Descriptions

----------------------------------------------------------------------------
(* Go maps as functions *)

EmptyMap == [ k \in {} |-> << >> ]

\* v, ok := m[k] with the zero value << >> of a slice
MapGetSlice(m, k) == IF k \in DOMAIN m THEN m[k] ELSE << >>

\* m[k] = v
MapPut(m, k, v) == [ kk \in DOMAIN m \cup {k} |-> IF kk = k THEN v ELSE m[kk] ]

\* the variant that puts v in front of m[k]
MapAppend_Front(m, k, v) == MapPut(m, k, << v >> \o MapGetSlice(m, k))

\* m[k] = append(m[k], v)
MapAppend(m, k, v) == MapPut(m, k, Append(MapGetSlice(m, k), v))

\* the orders in which a range loop may visit the elements of a set
RECURSIVE SortStrings(_)
SortStrings(S) ==
    IF S = {} THEN << >>
    ELSE LET m == CHOOSE x \in S : \A y \in S : x = y \/ StrLess(x, y)
         IN  << m >> \o SortStrings(S \ {m})

Orders(S) ==
    { o \in [1..Cardinality(S) -> S] : \A i, j \in 1..Cardinality(S) : o[i] = o[j] => i = j }

----------------------------------------------------------------------------
(* internal/report/categorize.go: CategorizeTasks *)

NoResult == [ none |-> TRUE ]
NoCall == [ fn |-> "none" ]

\* lines 52-53: the record is appended to completedTasks
CountsAsCompleted(task) ==
    \/ EqualFold(task.Status, StatusCompleted)
    \/ (EqualFold(task.Status, StatusInProgress) /\ Len(GetDescriptions(task)) > 0)

\* the variant that tracks a ticket under its extracted ID
TaskKey_ByTicketID(jiraTicket) ==
    IF jiraTicket = EmptyString THEN emptyTicketKey
    ELSE IF ExtractTicketID(jiraTicket) # EmptyString THEN ExtractTicketID(jiraTicket)
    ELSE jiraTicket

\* lines 63-66 and 76-79: the key of mostRecentTasks used for a ticket
TaskKey(jiraTicket) ==
    IF jiraTicket = EmptyString THEN emptyTicketKey ELSE jiraTicket

\* the variant that keeps the first record of a key whatever the dates
ReplacesMostRecent_IgnoresDate(m, taskKey, date) ==
    taskKey \notin DOMAIN m

\* the variant that also replaces on an equal date
ReplacesMostRecent_OnEqualDate(m, taskKey, date) ==
    taskKey \notin DOMAIN m \/ ~StrLess(date, m[taskKey].Date)

\* line 67: the stored record is replaced
ReplacesMostRecent(m, taskKey, date) ==
    taskKey \notin DOMAIN m \/ StrGreater(date, m[taskKey].Date)

\* line 81: the most recent record keeps the ticket in NextUp
StillOpen(mostRecent) ==
    \/ EqualFold(mostRecent.Task.Status, StatusInProgress)
    \/ EqualFold(mostRecent.Task.Status, StatusNotStarted)

\* the variant that keeps every ticket with an upnext description
FilterNextUp_KeepsAll(allNextUp, mostRecent) == allNextUp

\* lines 74-85
FilterNextUp(allNextUp, mostRecent) ==
    LET kept == { jiraTicket \in DOMAIN allNextUp :
                    /\ TaskKey(jiraTicket) \in DOMAIN mostRecent
                    /\ StillOpen(mostRecent[TaskKey(jiraTicket)]) }
    IN  [ jiraTicket \in kept |-> allNextUp[jiraTicket] ]

\* the variant that takes every key of mostRecentTasks
BlockedKeys_All(mostRecent) == DOMAIN mostRecent

\* lines 88-93: the keys of mostRecentTasks whose record has a blocker
BlockedKeys(mostRecent) ==
    { k \in DOMAIN mostRecent : mostRecent[k].Task.Blocker # EmptyString }

InLoop == pc = "loop" /\ di <= Len(dates)

\* the variant that leaves the loop at a date that is not in the work data
SkipDate_LeavesLoop ==
    /\ InLoop
    /\ dates[di] \notin DOMAIN workData
    /\ di' = Len(dates) + 1
    /\ ti' = 1
    /\ UNCHANGED << workData, dates, completedTasks, allNextUpTasks,
                    mostRecentTasks, pc, result, call, ret, out >>

\* lines 43-46: the date is not in the work data
SkipDate ==
    /\ InLoop
    /\ dates[di] \notin DOMAIN workData
    /\ di' = di + 1
    /\ ti' = 1
    /\ UNCHANGED << workData, dates, completedTasks, allNextUpTasks,
                    mostRecentTasks, pc, result, call, ret, out >>

\* lines 47-70: one iteration of the inner loop
ProcessTask ==
    /\ InLoop
    /\ dates[di] \in DOMAIN workData
    /\ ti <= Len(workData[dates[di]].Tasks)
    /\ LET date         == dates[di]
           task         == workData[date].Tasks[ti]
           taskWithDate == NewTaskWithDate(task, date)
           jiraTicket   == task.JiraTicket
           taskKey      == TaskKey(jiraTicket)
       IN  /\ completedTasks' =
                 IF CountsAsCompleted(task)
                 THEN MapAppend(completedTasks, jiraTicket, taskWithDate)
                 ELSE completedTasks
           /\ allNextUpTasks' =
                 IF task.UpnextDescription # EmptyString
                 THEN MapAppend(allNextUpTasks, jiraTicket, taskWithDate)
                 ELSE allNextUpTasks
           /\ mostRecentTasks' =
                 IF ReplacesMostRecent(mostRecentTasks, taskKey, date)
                 THEN MapPut(mostRecentTasks, taskKey, taskWithDate)
                 ELSE mostRecentTasks
    /\ ti' = ti + 1
    /\ UNCHANGED << workData, dates, di, pc, result, call, ret, out >>

\* line 47: the inner loop has run through the day's tasks
NextDate ==
    /\ InLoop
    /\ dates[di] \in DOMAIN workData
    /\ ti > Len(workData[dates[di]].Tasks)
    /\ di' = di + 1
    /\ ti' = 1
    /\ UNCHANGED << workData, dates, completedTasks, allNextUpTasks,
                    mostRecentTasks, pc, result, call, ret, out >>

\* lines 73-99: the two filters and the return; the range over mostRecentTasks
\* visits its keys in an unspecified order
FilterAndReturn ==
    /\ pc = "loop"
    /\ di > Len(dates)
    /\ \E order \in Orders(BlockedKeys(mostRecentTasks)) :
          result' = [ Completed |-> completedTasks,
                      NextUp    |-> FilterNextUp(allNextUpTasks, mostRecentTasks),
                      Blocked   |-> [ i \in 1..Len(order) |->
                                        mostRecentTasks[order[i]].Task ] ]
    /\ pc' = "done"
    /\ UNCHANGED << workData, dates, di, ti, completedTasks, allNextUpTasks,
                    mostRecentTasks, call, ret, out >>

----------------------------------------------------------------------------
(* The inputs of CategorizeTasks *)

DateUniverse == { Date1, Date2 }

\* the ascending, duplicate-free date sequences over the universe
DateSequences == { SortStrings(S) : S \in SUBSET DateUniverse }

RECURSIVE SumOver(_, _)
SumOver(f, S) ==
    IF S = {} THEN 0
    ELSE LET x == CHOOSE y \in S : TRUE IN f[x] + SumOver(f, S \ {x})

\* the work data over the dates D whose days hold lens[d] tasks, the tasks
\* being those of flat in date order
BuildWorkData(D, lens, flat) ==
    [ d \in D |->
        LET before == SumOver(lens, { e \in D : StrLess(e, d) })
        IN  [ Tasks |-> SubSeq(flat, before + 1, before + lens[d]) ] ]

\* the day lengths over the dates D with at most MaxTasks tasks in all
DayLengths(D) == { l \in [D -> 0..MaxTasks] : SumOver(l, D) <= MaxTasks }

\* workData is a work data over a subset of the universe with at most
\* MaxTasks tasks drawn from pool
IsWorkDataOver(pool) ==
    \E D \in SUBSET DateUniverse :
        \E lens \in DayLengths(D) :
            \E flat \in [1..SumOver(lens, D) -> pool] :
                workData = BuildWorkData(D, lens, flat)

TaskPool(statuses, descriptions, descriptionLists, tickets, upnexts, prs, blockers) ==
    { NewTask(s, d, ds, k, u, p, b) :
        s \in statuses, d \in descriptions, ds \in descriptionLists,
        k \in tickets, u \in upnexts, p \in prs, b \in blockers }

\* CategorizeTasks is entered with its two arguments and three empty maps
InitCategorize(pool) ==
    /\ IsWorkDataOver(pool)
    /\ dates \in DateSequences
    /\ di = 1
    /\ ti = 1
    /\ completedTasks = EmptyMap
    /\ allNextUpTasks = EmptyMap
    /\ mostRecentTasks = EmptyMap
    /\ pc = "loop"
    /\ result = NoResult
    /\ call = NoCall
    /\ ret = NoResult
    /\ out = << >>

\* most-recent tracking and the two filters: ticket, status, upnext, blocker
GatePool ==
    TaskPool({ InCompletedCap, StatusInProgress },
             { EmptyString }, { << >> },
             { EmptyString, emptyTicketKey, KeySCR2 },
             { EmptyString, TxtNext }, { EmptyString },
             { EmptyString, TxtWait })

Init == InitCategorize(GatePool)

Next ==
    \/ SkipDate
    \/ ProcessTask
    \/ NextDate
    \/ FilterAndReturn

Spec == Init /\ [][Next]_vars

----------------------------------------------------------------------------
(* The records of the input, for stating the claims *)

\* the records of the selected range, each named by its date and its place
\* in that day's task list
InRange ==
    { r \in [ date : { dates[i] : i \in 1..Len(dates) } \cap DOMAIN workData,
              idx  : 1..MaxTasks + 1 ] :
        r.idx <= Len(workData[r.date].Tasks) }

TaskAt(r) == workData[r.date].Tasks[r.idx]

DateIndex(d) == CHOOSE i \in 1..Len(dates) : dates[i] = d

\* r comes before q in the traversal (dates, then records within a date)
Before(r, q) ==
    \/ DateIndex(r.date) < DateIndex(q.date)
    \/ (r.date = q.date /\ r.idx < q.idx)

\* the records the loop has processed so far
Processed ==
    { r \in InRange :
        \/ pc # "loop"
        \/ DateIndex(r.date) < di
        \/ (DateIndex(r.date) = di /\ r.idx < ti) }

KeysIn(R) == { TaskAt(r).JiraTicket : r \in R }

RecordsOf(K, R) == { r \in R : TaskAt(r).JiraTicket = K }

\* the records of key K in R that carry K's greatest date
LatestOf(K, R) ==
    { r \in RecordsOf(K, R) :
        \A q \in RecordsOf(K, R) : ~StrLess(r.date, q.date) }

\* the first / last record of a non-empty set in traversal order
FirstOf(R) == CHOOSE r \in R : \A q \in R : q = r \/ Before(r, q)
LastOf(R)  == CHOOSE r \in R : \A q \in R : q = r \/ Before(q, r)

AsTaskWithDate(r) == NewTaskWithDate(TaskAt(r), r.date)

IsStatus(task, status) == EqualFold(task.Status, status)

KnownStatus(task) ==
    \/ IsStatus(task, StatusCompleted)
    \/ IsStatus(task, StatusInProgress)
    \/ IsStatus(task, StatusNotStarted)

Returned == pc = "done"

BlockedFor(K) ==
    { i \in 1..Len(result.Blocked) : result.Blocked[i].JiraTicket = K }

----------------------------------------------------------------------------
(* C1 *)

\* C1: after CategorizeTasks, a key K whose records of greatest date all have
\* status "completed" (case-insensitive) is not a key of NextUp.
C1_NextUpExcludesCompleted ==
    Returned =>
        \A K \in KeysIn(InRange) :
            (\A r \in LatestOf(K, InRange) : IsStatus(TaskAt(r), StatusCompleted))
                => K \notin DOMAIN result.NextUp

----------------------------------------------------------------------------
(* C2 *)

\* C2: after CategorizeTasks, Blocked holds a record of key K exactly when
\* K's most recent record has a non-empty blocker, and that record is K's
\* most recent one; an earlier blocker alone never puts K in Blocked.
C2_BlockedIffLatestBlocker ==
    Returned =>
        \A K \in KeysIn(InRange) :
            /\ (\A r \in LatestOf(K, InRange) : TaskAt(r).Blocker # EmptyString)
                  => BlockedFor(K) # {}
            /\ (\A r \in LatestOf(K, InRange) : TaskAt(r).Blocker = EmptyString)
                  => BlockedFor(K) = {}
            /\ \A i \in BlockedFor(K) :
                  \E r \in LatestOf(K, InRange) : TaskAt(r) = result.Blocked[i]

----------------------------------------------------------------------------
(* C3 *)

\* the records of R that are tracked under key s of mostRecentTasks
TrackedUnder(s, R) == { r \in R : TaskKey(TaskAt(r).JiraTicket) = s }

\* C3: after any prefix of the traversal, every key of mostRecentTasks holds
\* one of the processed records tracked under it, that record carries the
\* greatest date among them, and every processed record is tracked: no
\* processed record has a later date than the record stored for its key.
C3_MostRecentHasMaxDate ==
    LET P == Processed
    IN  /\ \A r \in P :
              /\ TaskKey(TaskAt(r).JiraTicket) \in DOMAIN mostRecentTasks
              /\ ~StrLess(mostRecentTasks[TaskKey(TaskAt(r).JiraTicket)].Date, r.date)
        /\ \A s \in DOMAIN mostRecentTasks :
              LET T == TrackedUnder(s, P)
              IN  /\ \E r \in T : AsTaskWithDate(r) = mostRecentTasks[s]
                  /\ \A q \in T : ~StrLess(mostRecentTasks[s].Date, q.date)

\* a later date has replaced an earlier record of the same key
C3_Witness ==
    \E s \in DOMAIN mostRecentTasks :
        \E q \in TrackedUnder(s, Processed) :
            /\ StrLess(q.date, mostRecentTasks[s].Date)
            /\ TaskAt(q) # mostRecentTasks[s].Task

----------------------------------------------------------------------------
(* C4 *)

\* the records of T that carry the greatest date among them
LatestIn(T) == { r \in T : \A q \in T : ~StrLess(r.date, q.date) }

\* C4 as stated: of several records of a key logged on the key's greatest
\* date, the one seen last in traversal order is the most recent record.
C4_TieKeepsLastSeen ==
    LET P == Processed
    IN  \A s \in DOMAIN mostRecentTasks :
            LET L == LatestIn(TrackedUnder(s, P))
            IN  Cardinality(L) >= 2 =>
                    mostRecentTasks[s] = AsTaskWithDate(LastOf(L))

\* C4 amended: of several records tracked under one key (empty tickets under
\* the placeholder key) on that key's greatest date, the one seen first in
\* traversal order is the most recent record; its status gates NextUp and
\* its blocker decides Blocked.
C4_TieKeepsFirstSeen ==
    LET P == Processed
    IN  \A s \in DOMAIN mostRecentTasks :
            LET T     == TrackedUnder(s, P)
                L     == LatestIn(T)
                first == FirstOf(L)
            IN  Cardinality(L) >= 2 =>
                  /\ mostRecentTasks[s] = AsTaskWithDate(first)
                  /\ Returned =>
                        /\ \A K \in KeysIn(T) :
                              (K \in DOMAIN result.NextUp) =
                                  (/\ \E r \in RecordsOf(K, T) :
                                          TaskAt(r).UpnextDescription # EmptyString
                                   /\ (\/ IsStatus(TaskAt(first), StatusInProgress)
                                       \/ IsStatus(TaskAt(first), StatusNotStarted)))
                        /\ (\E i \in 1..Len(result.Blocked) :
                                result.Blocked[i] = TaskAt(first))
                              = (TaskAt(first).Blocker # EmptyString)
                        /\ \A i \in 1..Len(result.Blocked) :
                              TaskKey(result.Blocked[i].JiraTicket) = s
                                  => result.Blocked[i] = TaskAt(first)

\* after the return: two records of one key on its greatest date, the first
\* completed and the last still open with a blocker and an upnext description
C4_Witness ==
    /\ Returned
    /\ \E s \in DOMAIN mostRecentTasks :
          LET L     == LatestIn(TrackedUnder(s, InRange))
              first == TaskAt(FirstOf(L))
              last  == TaskAt(LastOf(L))
          IN  /\ Cardinality(L) >= 2
              /\ first.JiraTicket = last.JiraTicket
              /\ IsStatus(first, StatusCompleted)
              /\ first.Blocker = EmptyString
              /\ IsStatus(last, StatusInProgress)
              /\ last.Blocker # EmptyString
              /\ last.UpnextDescription # EmptyString

----------------------------------------------------------------------------
(* C5 *)

\* the non-empty strings among description and descriptions
NonEmptyDescriptions(task) ==
    SelectSeq(<< task.Description >> \o task.Descriptions,
              LAMBDA d : d # EmptyString)

InCompleted(r) ==
    /\ TaskAt(r).JiraTicket \in DOMAIN completedTasks
    /\ \E i \in 1..Len(completedTasks[TaskAt(r).JiraTicket]) :
          completedTasks[TaskAt(r).JiraTicket][i] = AsTaskWithDate(r)

\* C5: a processed record with status "in progress" is in Completed[key]
\* exactly when one of its description strings is non-empty.
C5_InProgressNeedsNonEmptyDescription ==
    \A r \in Processed :
        IsStatus(TaskAt(r), StatusInProgress) =>
            (InCompleted(r) = (Len(NonEmptyDescriptions(TaskAt(r))) > 0))

----------------------------------------------------------------------------
(* internal/report (text report): the partition of each section *)

\* PrintCompletedTasks / PrintNextUpTasks: hasPR and prArg of a ticket's list
PrArg(taskList) ==
    IF \E i \in 1..Len(taskList) : taskList[i].Task.GithubPR # EmptyString
    THEN HasPrArg ELSE EmptyString

\* PrintCompletedTasks: nonFeatureTickets, before sorting
CompletedNonFeatureTickets(tasks) ==
    { ticket \in DOMAIN tasks : IsNonFeatureWork(ticket, PrArg(tasks[ticket])) }

\* PrintNextUpTasks: nonFeatureTickets, before sorting
NextUpNonFeatureTickets(nextUp) ==
    { ticket \in DOMAIN nextUp : IsNonFeatureWork(ticket, PrArg(nextUp[ticket])) }

\* PrintBlockedTasks: the entries of blocked put in nonFeatureTasks
BlockedNonFeatureEntries(blocked) ==
    { i \in 1..Len(blocked) :
        IsNonFeatureWork(blocked[i].JiraTicket, blocked[i].GithubPR) }

----------------------------------------------------------------------------
(* C8 *)

\* the classifications (TRUE: non-feature) a key receives in the sections of
\* one report
ClassesOf(K) ==
    (IF K \in DOMAIN result.Completed
        THEN { K \in CompletedNonFeatureTickets(result.Completed) } ELSE {})
    \cup
    (IF K \in DOMAIN result.NextUp
        THEN { K \in NextUpNonFeatureTickets(result.NextUp) } ELSE {})
    \cup
    { (i \in BlockedNonFeatureEntries(result.Blocked)) : i \in BlockedFor(K) }

\* C8: within one report no key is feature work in one section and
\* non-feature work in another.
C8_SameClassInEverySection ==
    Returned =>
        \A K \in KeysIn(InRange) : Cardinality(ClassesOf(K)) <= 1

----------------------------------------------------------------------------
(* C9 *)

\* C9: a record with a non-empty key never replaces, and is never replaced
\* by, the most recent record of the empty-key pool.
C9_EmptyPoolSlotIsPrivate ==
    [][ \A s \in DOMAIN mostRecentTasks \cap DOMAIN mostRecentTasks' :
            (mostRecentTasks[s].Task.JiraTicket = EmptyString)
                = (mostRecentTasks'[s].Task.JiraTicket = EmptyString) ]_vars

----------------------------------------------------------------------------
(* C10 *)

\* C10: a record whose status is none of the three known ones is never in
\* Completed, and a key whose records of greatest date all have such a
\* status is not a key of NextUp.
C10_UnknownStatusContributesNothing ==
    /\ \A r \in Processed : ~KnownStatus(TaskAt(r)) => ~InCompleted(r)
    /\ Returned =>
          \A K \in KeysIn(InRange) :
              (\A r \in LatestOf(K, InRange) : ~KnownStatus(TaskAt(r)))
                  => K \notin DOMAIN result.NextUp

----------------------------------------------------------------------------
(* Further inputs of CategorizeTasks *)

\* the completed rule: status, description, descriptions
DescriptionPool ==
    TaskPool({ InCompletedCap, InInProgressCap, InOnHold },
             { EmptyString, TxtDid },
             { << >>, << EmptyString >>, << TxtMore >>, << EmptyString, TxtMore >> },
             { EmptyString, KeySCR2 },
             { EmptyString }, { EmptyString }, { EmptyString })

InitDescriptions == InitCategorize(DescriptionPool)

SpecDescriptions == InitDescriptions /\ [][Next]_vars

\* the statuses: known ones in either letter case and an unknown one
StatusPool ==
    TaskPool({ InCompletedCap, InInProgressCap, StatusNotStarted, InOnHold },
             { EmptyString }, { << >> },
             { EmptyString, emptyTicketKey, KeySCR2 },
             { EmptyString, TxtNext }, { EmptyString },
             { EmptyString, TxtWait })

InitStatuses == InitCategorize(StatusPool)

SpecStatuses == InitStatuses /\ [][Next]_vars

\* the sections of the report: ticket, PR, upnext, blocker
SectionPool ==
    TaskPool({ InCompletedCap, StatusInProgress },
             { EmptyString }, { << >> },
             { EmptyString, KeySCR2, KeyNoJiraCleanup },
             { EmptyString, TxtNext },
             { EmptyString, TxtPr1 },
             { EmptyString, TxtWait })

InitSections == InitCategorize(SectionPool)

SpecSections == InitSections /\ [][Next]_vars

----------------------------------------------------------------------------
(* Calls of ExtractTicketID and IsNonFeatureWork on generated references *)

\* A - 1 b _ and the space
BodyAlphabet == { 65, 45, 49, 98, 95, 32 }

Bodies == UNION { [1..n -> BodyAlphabet] : n \in 0..MaxBodyLen }

TicketPrefixes == { EmptyString, NoJiraMarker, KeyNoJiraLower, BaseURL \o BrowsePath }

TicketSuffixes == { EmptyString, BaseURL \o BrowsePath \o KeySCR2 }

TicketInputs ==
    { pre \o body \o suf :
        pre \in TicketPrefixes, body \in Bodies, suf \in TicketSuffixes }
    \cup { KeyNoJiraCleanup, KeySCR2, emptyTicketKey }

NextCall(fn) == [ fn |-> fn, ticket |-> call.ticket, githubPR |-> call.githubPR ]

InitTicket ==
    /\ call \in [ fn : { "none" }, ticket : TicketInputs,
                  githubPR : { EmptyString, TxtPr1 } ]
    /\ ret = NoResult
    /\ pc = "call"
    /\ workData = EmptyMap
    /\ dates = << >>
    /\ di = 1
    /\ ti = 1
    /\ completedTasks = EmptyMap
    /\ allNextUpTasks = EmptyMap
    /\ mostRecentTasks = EmptyMap
    /\ result = NoResult
    /\ out = << >>

\* jira.ExtractTicketID(ticket)
CallExtractTicketID ==
    /\ pc = "call"
    /\ call.fn = "none"
    /\ call' = NextCall("ExtractTicketID")
    /\ ret' = [ id |-> ExtractTicketID(call.ticket) ]
    /\ UNCHANGED << workData, dates, di, ti, completedTasks, allNextUpTasks,
                    mostRecentTasks, pc, result, out >>

\* report.IsNonFeatureWork(ticket, githubPR)
CallIsNonFeatureWork ==
    /\ pc = "call"
    /\ call.fn = "ExtractTicketID"
    /\ call' = NextCall("IsNonFeatureWork")
    /\ ret' = [ id |-> ret.id,
                nonFeature |-> IsNonFeatureWork(call.ticket, call.githubPR) ]
    /\ pc' = "returned"
    /\ UNCHANGED << workData, dates, di, ti, completedTasks, allNextUpTasks,
                    mostRecentTasks, result, out >>

NextTicket ==
    \/ CallExtractTicketID
    \/ CallIsNonFeatureWork

SpecTicket == InitTicket /\ [][NextTicket]_vars

----------------------------------------------------------------------------
(* C6 *)

\* the key contains "NO-JIRA" in any letter case
HasNoJiraMarker(ticket) ==
    \E i \in 1..Len(ticket) :
        /\ i + Len(NoJiraMarker) - 1 <= Len(ticket)
        /\ EqualFold(SubSeq(ticket, i, i + Len(NoJiraMarker) - 1), NoJiraMarker)

BothReturned == pc = "returned"

\* C6: IsNonFeatureWork returns false for every key that contains the marker
\* "NO-JIRA" (case-insensitive) when the PR reference is non-empty.
C6_NoJiraWithPRIsFeature ==
    (BothReturned /\ HasNoJiraMarker(call.ticket) /\ call.githubPR # EmptyString)
        => ret.nonFeature = FALSE

\* a lower-case marker with a PR and no extractable ticket ID
C6_Witness ==
    /\ BothReturned
    /\ HasNoJiraMarker(call.ticket)
    /\ ~Contains(call.ticket, NoJiraMarker)
    /\ call.githubPR # EmptyString
    /\ ret.id = EmptyString
    /\ ret.nonFeature = FALSE

----------------------------------------------------------------------------
(* C7 *)

\* C7 as stated: IsNonFeatureWork returns true for every key on which
\* ExtractTicketID yields no identifier, whatever the PR reference is.
C7_NoIDIsNonFeature ==
    (BothReturned /\ ret.id = EmptyString) => ret.nonFeature = TRUE

\* C7 amended: IsNonFeatureWork returns true exactly when the key is empty,
\* or carries the NO-JIRA marker and the PR reference is empty, or carries no
\* marker and ExtractTicketID yields no identifier; so a key without an
\* identifier is non-feature work unless it carries the marker and a PR.
C7_NoIDIsNonFeatureUnlessNoJiraWithPR ==
    BothReturned =>
        ret.nonFeature =
            (\/ call.ticket = EmptyString
             \/ (HasNoJiraMarker(call.ticket) /\ call.githubPR = EmptyString)
             \/ (~HasNoJiraMarker(call.ticket) /\ ret.id = EmptyString))

\* a non-empty key without marker and without identifier, called with a PR
C7_Witness ==
    /\ BothReturned
    /\ call.ticket # EmptyString
    /\ ~HasNoJiraMarker(call.ticket)
    /\ ret.id = EmptyString
    /\ call.githubPR # EmptyString
    /\ ret.nonFeature = TRUE

----------------------------------------------------------------------------
(* internal/report (text report): the lines written by the three printers *)

\* the text of TextHeaderCompleted after its emoji: "Thing I've been working on"
TextHeaderCompleted == <<84, 104, 105, 110, 103, 32, 73, 39, 118, 101, 32, 98, 101, 101, 110, 32, 119, 111, 114, 107, 105, 110, 103, 32, 111, 110>>
\* the text of TextHeaderNextUp after its emoji code
TextHeaderNextUp == <<84, 104, 105, 110, 103, 32, 73, 32, 112, 108, 97, 110, 32, 111, 110, 32, 119, 111, 114, 107, 105, 110, 103, 32, 111, 110, 32, 110, 101, 120, 116>>
\* the text of TextHeaderBlocked after its emoji code
TextHeaderBlocked == <<84, 104, 105, 110, 103, 32, 116, 104, 97, 116, 32, 105, 115, 32, 98, 108, 111, 99, 107, 105, 110, 103, 32, 109, 101, 32, 111, 114, 32, 116, 104, 97, 116, 32, 73, 32, 99, 111, 117, 108, 100, 32, 117, 115, 101, 32, 115, 111, 109, 101, 32, 104, 101, 108, 112, 32, 47, 32, 100, 105, 115, 99, 117, 115, 115, 105, 111, 110, 32, 97, 98, 111, 117, 116>>
\* "Non-feature work"
textNonFeatureWorkHeader == <<78, 111, 110, 45, 102, 101, 97, 116, 117, 114, 101, 32, 119, 111, 114, 107>>
\* "Misc"
MiscHeader == <<77, 105, 115, 99>>
\* "PR(s): "
PrsLabel == <<80, 82, 40, 115, 41, 58, 32>>
\* "; "
PrsSeparator == <<59, 32>>
\* "Blocker: "
BlockerLabel == <<66, 108, 111, 99, 107, 101, 114, 58, 32>>
\* ": "
ColonSpace == <<58, 32>>
\* " "
Space == <<32>>

\* one line of the report: the printer and the statement that wrote it, the
\* ticket whose entry it belongs to, the depth of its bullet (0: no bullet,
\* 1: "    * ", 2: "        o ", 3: "            - ") and the text after it
Line(section, site, ticket, level, text) ==
    [ section |-> section, site |-> site, ticket |-> ticket,
      level |-> level, text |-> text ]

\* strings.Join
RECURSIVE Join(_, _)
Join(elems, sep) ==
    IF Len(elems) = 0 THEN EmptyString
    ELSE IF Len(elems) = 1 THEN elems[1]
    ELSE elems[1] \o sep \o Join(Tail(elems), sep)

\* sort.Slice(taskList, by Date): an insertion sort for the short lists of
\* the model, which keeps records of one date in their order
RECURSIVE SortByDate(_)
SortByDate(taskList) ==
    IF Len(taskList) = 0 THEN << >>
    ELSE LET i == Min({ j \in 1..Len(taskList) :
                          \A k \in 1..Len(taskList) :
                              ~StrLess(taskList[k].Date, taskList[j].Date) })
         IN  << taskList[i] >>
                 \o SortByDate(SubSeq(taskList, 1, i - 1)
                                 \o SubSeq(taskList, i + 1, Len(taskList)))

\* prLinks: the non-empty PR references of a ticket's list
PrLinks(taskList) ==
    { taskList[i].Task.GithubPR : i \in 1..Len(taskList) } \ { EmptyString }

\* descriptions: GetDescriptions of every record of the list, in list order
RECURSIVE AllDescriptions(_)
AllDescriptions(taskList) ==
    IF Len(taskList) = 0 THEN << >>
    ELSE GetDescriptions(Head(taskList).Task) \o AllDescriptions(Tail(taskList))

\* the variant that lists the PR reference of every record, in list order
PrLine_EveryRecord(section, ticket, level, taskList) ==
    IF PrLinks(taskList) = {} THEN << >>
    ELSE << Line(section, "prs", ticket, level,
                 PrsLabel \o Join(SelectSeq([ i \in 1..Len(taskList) |->
                                                taskList[i].Task.GithubPR ],
                                            LAMBDA link : link # EmptyString),
                                  PrsSeparator)) >>

\* the PR line of an entry: written only when prLinks is not empty
PrLine(section, ticket, level, taskList) ==
    IF PrLinks(taskList) = {} THEN << >>
    ELSE << Line(section, "prs", ticket, level,
                 PrsLabel \o Join(SortStrings(PrLinks(taskList)), PrsSeparator)) >>

DescriptionLines(section, ticket, level, descriptions) ==
    [ i \in 1..Len(descriptions) |->
        Line(section, "description", ticket, level, descriptions[i]) ]

printTicketEntry(ticket, taskList) ==
    LET sorted == SortByDate(taskList)
    IN  << Line("Completed", "entry", ticket, 1, ticket \o ColonSpace) >>
            \o DescriptionLines("Completed", ticket, 2, AllDescriptions(sorted))
            \o PrLine("Completed", ticket, 2, sorted)

\* the variant that always uses the ticket text
SubEntryHeader_TicketText(ticket) == ticket

\* header: the ticket text, or "Misc" if empty
SubEntryHeader(ticket) == IF ticket = EmptyString THEN MiscHeader ELSE ticket

printNonFeatureSubEntry(ticket, taskList) ==
    LET sorted == SortByDate(taskList)
    IN  << Line("Completed", "subentry", ticket, 2, SubEntryHeader(ticket)) >>
            \o DescriptionLines("Completed", ticket, 3, AllDescriptions(sorted))
            \o PrLine("Completed", ticket, 3, sorted)

\* the note of one record in the backwards loop of the NextUp printers
NoteOf(task) ==
    IF task.UpnextDescription # EmptyString THEN task.UpnextDescription
    ELSE IF Len(GetDescriptions(task)) > 0
         THEN GetDescriptions(task)[Len(GetDescriptions(task))]
         ELSE EmptyString

\* the variant that takes the note of the first record of the list that has
\* one
MostRecentDesc_Oldest(taskList) ==
    LET noted == { i \in 1..Len(taskList) : NoteOf(taskList[i].Task) # EmptyString }
    IN  IF noted = {} THEN EmptyString
        ELSE NoteOf(taskList[CHOOSE i \in noted : \A j \in noted : i <= j].Task)

\* mostRecentDesc: the note of the last record of the list that has one
MostRecentDesc(taskList) ==
    LET noted == { i \in 1..Len(taskList) : NoteOf(taskList[i].Task) # EmptyString }
    IN  IF noted = {} THEN EmptyString
        ELSE NoteOf(taskList[CHOOSE i \in noted : \A j \in noted : j <= i].Task)

NoteLine(ticket, level, taskList) ==
    IF MostRecentDesc(taskList) = EmptyString THEN << >>
    ELSE << Line("NextUp", "description", ticket, level, MostRecentDesc(taskList)) >>

printNextUpTicketEntry(ticket, taskList) ==
    LET sorted == SortByDate(taskList)
    IN  << Line("NextUp", "entry", ticket, 1, ticket) >>
            \o NoteLine(ticket, 2, sorted)
            \o PrLine("NextUp", ticket, 2, sorted)

printNonFeatureNextUpSubEntry(ticket, taskList) ==
    LET sorted == SortByDate(taskList)
    IN  << Line("NextUp", "subentry", ticket, 2, SubEntryHeader(ticket)) >>
            \o NoteLine(ticket, 3, sorted)
            \o PrLine("NextUp", ticket, 3, sorted)

RECURSIVE CompletedFeatureEntries(_, _)
CompletedFeatureEntries(tickets, tasks) ==
    IF Len(tickets) = 0 THEN << >>
    ELSE printTicketEntry(Head(tickets), tasks[Head(tickets)])
             \o CompletedFeatureEntries(Tail(tickets), tasks)

RECURSIVE CompletedNonFeatureEntries(_, _)
CompletedNonFeatureEntries(tickets, tasks) ==
    IF Len(tickets) = 0 THEN << >>
    ELSE printNonFeatureSubEntry(Head(tickets), tasks[Head(tickets)])
             \o CompletedNonFeatureEntries(Tail(tickets), tasks)

RECURSIVE NextUpFeatureEntries(_, _)
NextUpFeatureEntries(tickets, nextUp) ==
    IF Len(tickets) = 0 THEN << >>
    ELSE printNextUpTicketEntry(Head(tickets), nextUp[Head(tickets)])
             \o NextUpFeatureEntries(Tail(tickets), nextUp)

RECURSIVE NextUpNonFeatureEntries(_, _)
NextUpNonFeatureEntries(tickets, nextUp) ==
    IF Len(tickets) = 0 THEN << >>
    ELSE printNonFeatureNextUpSubEntry(Head(tickets), nextUp[Head(tickets)])
             \o NextUpNonFeatureEntries(Tail(tickets), nextUp)

\* the lines PrintCompletedTasks writes
CompletedLines(tasks) ==
    IF DOMAIN tasks = {} THEN << >>
    ELSE LET nonFeatureTickets == CompletedNonFeatureTickets(tasks)
             featureTickets    == DOMAIN tasks \ nonFeatureTickets
         IN  << Line("Completed", "header", EmptyString, 0, TextHeaderCompleted) >>
                 \o CompletedFeatureEntries(SortStrings(featureTickets), tasks)
                 \o (IF nonFeatureTickets = {} THEN << >>
                     ELSE << Line("Completed", "group", EmptyString, 1,
                                  textNonFeatureWorkHeader \o ColonSpace) >>
                              \o CompletedNonFeatureEntries(
                                     SortStrings(nonFeatureTickets), tasks))

\* the lines PrintNextUpTasks writes
NextUpLines(nextUp) ==
    IF DOMAIN nextUp = {} THEN << >>
    ELSE LET nonFeatureTickets == NextUpNonFeatureTickets(nextUp)
             featureTickets    == DOMAIN nextUp \ nonFeatureTickets
         IN  << Line("NextUp", "header", EmptyString, 0, TextHeaderNextUp) >>
                 \o NextUpFeatureEntries(SortStrings(featureTickets), nextUp)
                 \o (IF nonFeatureTickets = {} THEN << >>
                     ELSE << Line("NextUp", "group", EmptyString, 1,
                                  textNonFeatureWorkHeader) >>
                              \o NextUpNonFeatureEntries(
                                     SortStrings(nonFeatureTickets), nextUp))

\* PrintBlockedTasks: featureTasks and nonFeatureTasks, in the order of blocked
BlockedFeatureTasks(blocked) ==
    SelectSeq(blocked, LAMBDA task : ~IsNonFeatureWork(task.JiraTicket, task.GithubPR))

BlockedNonFeatureTasks(blocked) ==
    SelectSeq(blocked, LAMBDA task : IsNonFeatureWork(task.JiraTicket, task.GithubPR))

RECURSIVE BlockedFeatureEntries(_)
BlockedFeatureEntries(tasks) ==
    IF Len(tasks) = 0 THEN << >>
    ELSE << Line("Blocked", "entry", Head(tasks).JiraTicket, 1,
                 Head(tasks).JiraTicket \o Space),
            Line("Blocked", "blocker", Head(tasks).JiraTicket, 2,
                 BlockerLabel \o Head(tasks).Blocker) >>
             \o BlockedFeatureEntries(Tail(tasks))

RECURSIVE BlockedNonFeatureSubEntries(_)
BlockedNonFeatureSubEntries(tasks) ==
    IF Len(tasks) = 0 THEN << >>
    ELSE << Line("Blocked", "subentry", Head(tasks).JiraTicket, 2,
                 SubEntryHeader(Head(tasks).JiraTicket)),
            Line("Blocked", "blocker", Head(tasks).JiraTicket, 3,
                 BlockerLabel \o Head(tasks).Blocker) >>
             \o BlockedNonFeatureSubEntries(Tail(tasks))

\* the variant that writes the header before looking at the list
BlockedLines_HeaderFirst(blocked) ==
    << Line("Blocked", "header", EmptyString, 0, TextHeaderBlocked) >>
        \o BlockedFeatureEntries(BlockedFeatureTasks(blocked))
        \o (IF Len(BlockedNonFeatureTasks(blocked)) = 0 THEN << >>
            ELSE << Line("Blocked", "group", EmptyString, 1,
                         textNonFeatureWorkHeader \o Space) >>
                     \o BlockedNonFeatureSubEntries(BlockedNonFeatureTasks(blocked)))

\* the lines PrintBlockedTasks writes
BlockedLines(blocked) ==
    IF Len(blocked) = 0 THEN << >>
    ELSE << Line("Blocked", "header", EmptyString, 0, TextHeaderBlocked) >>
             \o BlockedFeatureEntries(BlockedFeatureTasks(blocked))
             \o (IF Len(BlockedNonFeatureTasks(blocked)) = 0 THEN << >>
                 ELSE << Line("Blocked", "group", EmptyString, 1,
                              textNonFeatureWorkHeader \o Space) >>
                          \o BlockedNonFeatureSubEntries(BlockedNonFeatureTasks(blocked)))

\* the printers sort each ticket's list in place
SortedLists(tasks) == [ ticket \in DOMAIN tasks |-> SortByDate(tasks[ticket]) ]

\* PrintCompletedTasks(out, categorized.Completed)
PrintCompletedTasks ==
    /\ pc = "done"
    /\ out' = out \o CompletedLines(result.Completed)
    /\ result' = [ result EXCEPT !.Completed = SortedLists(@) ]
    /\ pc' = "PrintNextUpTasks"
    /\ UNCHANGED << workData, dates, di, ti, completedTasks, allNextUpTasks,
                    mostRecentTasks, call, ret >>

\* PrintNextUpTasks(out, categorized.NextUp)
PrintNextUpTasks ==
    /\ pc = "PrintNextUpTasks"
    /\ out' = out \o NextUpLines(result.NextUp)
    /\ result' = [ result EXCEPT !.NextUp = SortedLists(@) ]
    /\ pc' = "PrintBlockedTasks"
    /\ UNCHANGED << workData, dates, di, ti, completedTasks, allNextUpTasks,
                    mostRecentTasks, call, ret >>

\* PrintBlockedTasks(out, categorized.Blocked)
PrintBlockedTasks ==
    /\ pc = "PrintBlockedTasks"
    /\ out' = out \o BlockedLines(result.Blocked)
    /\ pc' = "reported"
    /\ UNCHANGED << workData, dates, di, ti, completedTasks, allNextUpTasks,
                    mostRecentTasks, result, call, ret >>

\* the report command: CategorizeTasks, then the three printers in this order
NextReport ==
    \/ SkipDate
    \/ ProcessTask
    \/ NextDate
    \/ FilterAndReturn
    \/ PrintCompletedTasks
    \/ PrintNextUpTasks
    \/ PrintBlockedTasks

\* the lines of one section of the report, in the order written
SectionLines(section) == SelectSeq(out, LAMBDA line : line.section = section)

Reported == pc = "reported"

----------------------------------------------------------------------------
(* C11 *)

\* completed work under feature and non-feature keys, with and without a
\* description and a PR
CompletedPool ==
    TaskPool({ InCompletedCap },
             { EmptyString, TxtDid }, { << >> },
             { EmptyString, KeySCR2 },
             { EmptyString },
             { EmptyString, TxtPr1, TxtPr2 },
             { EmptyString })

InitCompleted == InitCategorize(CompletedPool)

SpecCompleted == InitCompleted /\ [][NextReport]_vars

\* the lines a statement wrote for a ticket in a section
LinesAt(section, site, ticket) ==
    SelectSeq(out, LAMBDA line :
        line.section = section /\ line.site = site /\ line.ticket = ticket)

\* the non-empty PR references of the records of a list
ReferencesOf(taskList) ==
    { link \in { taskList[i].Task.GithubPR : i \in 1..Len(taskList) } :
        link # EmptyString }

\* text lists exactly the references of links, each once, in ascending order
ListsAscending(text, links) ==
    \E o \in Orders(links) :
        /\ \A i \in 1..(Len(o) - 1) : StrLess(o[i], o[i + 1])
        /\ text = PrsLabel \o Join(o, PrsSeparator)

\* C11: for every key of Completed the text report has exactly one PR line
\* when a contributing record has a PR reference and none otherwise, and the
\* line lists exactly the distinct non-empty references of the key's
\* contributing records in ascending order, after the key's other lines.
C11_CompletedPrLine ==
    Reported =>
        \A K \in DOMAIN result.Completed :
            LET links   == ReferencesOf(result.Completed[K])
                prLines == LinesAt("Completed", "prs", K)
                others  == { i \in 1..Len(out) :
                               /\ out[i].section = "Completed"
                               /\ out[i].ticket = K
                               /\ out[i].site \in { "entry", "subentry", "description" } }
            IN  /\ Len(prLines) = (IF links = {} THEN 0 ELSE 1)
                /\ links # {} =>
                      /\ ListsAscending(prLines[1].text, links)
                      /\ others # {}
                      /\ \A i \in 1..Len(out) :
                            out[i] = prLines[1] => \A j \in others : j < i

\* a key without any description whose two records carry different PR
\* references, the greater one first, and a key whose records repeat one
C11_Witness ==
    /\ Reported
    /\ \E K \in DOMAIN result.Completed :
          LET taskList == result.Completed[K]
          IN  /\ Len(taskList) >= 2
              /\ AllDescriptions(taskList) = << >>
              /\ StrLess(taskList[2].Task.GithubPR, taskList[1].Task.GithubPR)
              /\ taskList[2].Task.GithubPR # EmptyString
              /\ Len(LinesAt("Completed", "prs", K)) = 1

----------------------------------------------------------------------------
(* C12 *)

\* open work under feature and empty keys, with and without an upnext
\* description and a PR
NextUpPool ==
    TaskPool({ StatusInProgress },
             { EmptyString }, { << >> },
             { EmptyString, KeySCR2 },
             { EmptyString, TxtNext },
             { EmptyString, TxtPr1, TxtPr2 },
             { EmptyString })

InitNextUp == InitCategorize(NextUpPool)

SpecNextUp == InitNextUp /\ [][NextReport]_vars

\* the non-empty PR references of all the records of key K in range
ReferencesInRange(K) ==
    { link \in { TaskAt(r).GithubPR : r \in RecordsOf(K, InRange) } :
        link # EmptyString }

\* C12: for every key of NextUp the PR line of the text report lists the
\* distinct non-empty PR references of all the records of the key in range,
\* those without an upnext description included, in ascending order.
C12_NextUpPrLineCoversAllRecords ==
    Reported =>
        \A K \in DOMAIN result.NextUp :
            LET links   == ReferencesInRange(K)
                prLines == LinesAt("NextUp", "prs", K)
            IN  /\ Len(prLines) = (IF links = {} THEN 0 ELSE 1)
                /\ links # {} => ListsAscending(prLines[1].text, links)

----------------------------------------------------------------------------
(* C13 *)

\* one ticket under its ID and under its URL form, closed or open, with and
\* without an upnext description and a blocker
ReportPool ==
    TaskPool({ InCompletedCap, StatusInProgress },
             { EmptyString }, { << >> },
             { KeySCR2, KeySCR2URL },
             { EmptyString, TxtNext },
             { EmptyString },
             { EmptyString, TxtWait })

InitReport == InitCategorize(ReportPool)

SpecReport == InitReport /\ [][NextReport]_vars

SectionRank(section) ==
    CASE section = "Completed" -> 1
      [] section = "NextUp"    -> 2
      [] section = "Blocked"   -> 3

\* the section starts with its header and has no other header
HeaderOnlyFirst(section, header) ==
    LET lines == SectionLines(section)
    IN  /\ Len(lines) > 0
        /\ lines[1].level = 0
        /\ lines[1].text = header
        /\ \A i \in 2..Len(lines) : lines[i].level > 0

\* C13: the text report writes the lines of Completed before those of
\* NextUp before those of Blocked; a section whose collection is not empty
\* starts with its header, and a section whose collection is empty has no
\* line at all.
C13_SectionsInOrderAndOptional ==
    /\ \A i, j \in 1..Len(out) :
          i < j => SectionRank(out[i].section) <= SectionRank(out[j].section)
    /\ Reported =>
          /\ IF DOMAIN result.Completed # {}
                THEN HeaderOnlyFirst("Completed", TextHeaderCompleted)
                ELSE SectionLines("Completed") = << >>
          /\ IF DOMAIN result.NextUp # {}
                THEN HeaderOnlyFirst("NextUp", TextHeaderNextUp)
                ELSE SectionLines("NextUp") = << >>
          /\ IF Len(result.Blocked) > 0
                THEN HeaderOnlyFirst("Blocked", TextHeaderBlocked)
                ELSE SectionLines("Blocked") = << >>

\* a report with a Completed and a NextUp section and no Blocked section
C13_Witness ==
    /\ Reported
    /\ DOMAIN result.Completed # {}
    /\ DOMAIN result.NextUp # {}
    /\ Len(result.Blocked) = 0
    /\ Len(SectionLines("Completed")) > 0
    /\ Len(SectionLines("NextUp")) > 0

----------------------------------------------------------------------------
(* C14 *)

\* C14: the feature entries of the Blocked section of the text report are
\* in ascending key order.
C14_BlockedFeatureEntriesAscending ==
    Reported =>
        LET entries == SelectSeq(out, LAMBDA line :
                           line.section = "Blocked" /\ line.site = "entry")
        IN  \A i, j \in 1..Len(entries) :
                i < j => StrLess(entries[i].ticket, entries[j].ticket)

----------------------------------------------------------------------------
(* C15 *)

\* completed work under the empty key, a ticket and a NO-JIRA key, described
\* by description, by descriptions, by both or by neither
MiscPool ==
    TaskPool({ InCompletedCap },
             { EmptyString, TxtDid }, { << >>, << TxtMore >> },
             { EmptyString, KeySCR2, KeyNoJiraCleanup },
             { EmptyString }, { EmptyString }, { EmptyString })

InitMisc == InitCategorize(MiscPool)

SpecMisc == InitMisc /\ [][NextReport]_vars

\* the records of R in traversal order
RECURSIVE InTraversalOrder(_)
InTraversalOrder(R) ==
    IF R = {} THEN << >>
    ELSE << FirstOf(R) >> \o InTraversalOrder(R \ { FirstOf(R) })

\* the descriptions of the records of a sequence, record after record
RECURSIVE DescriptionsOfRecords(_)
DescriptionsOfRecords(records) ==
    IF Len(records) = 0 THEN << >>
    ELSE GetDescriptions(TaskAt(Head(records)))
             \o DescriptionsOfRecords(Tail(records))

\* the positions in out of the lines a statement wrote for a ticket
PositionsAt(section, site, ticket) ==
    { i \in 1..Len(out) :
        out[i].section = section /\ out[i].site = site /\ out[i].ticket = ticket }

\* C15: the completed records with an empty key, whatever their dates, are
\* the list of the one Completed entry of the empty key, and the text report
\* writes each of their descriptions, in date order, at the third level
\* under a sub-entry "Misc" of the group "Non-feature work", which follows
\* every feature entry of the section.
C15_EmptyKeyCompletedUnderMisc ==
    LET records == InTraversalOrder({ r \in RecordsOf(EmptyString, InRange) :
                                        IsStatus(TaskAt(r), StatusCompleted) })
    IN  (Reported /\ Len(records) > 0) =>
          /\ EmptyString \in DOMAIN result.Completed
          /\ result.Completed[EmptyString]
                = [ i \in 1..Len(records) |-> AsTaskWithDate(records[i]) ]
          /\ LET groups   == PositionsAt("Completed", "group", EmptyString)
                 headers  == PositionsAt("Completed", "subentry", EmptyString)
                 written  == LinesAt("Completed", "description", EmptyString)
                 features == { i \in 1..Len(out) :
                                 /\ out[i].section = "Completed"
                                 /\ out[i].level > 0
                                 /\ out[i].site # "group"
                                 /\ ~IsNonFeatureWork(out[i].ticket,
                                        PrArg(result.Completed[out[i].ticket])) }
             IN  /\ Cardinality(groups) = 1
                 /\ Cardinality(headers) = 1
                 /\ \A g \in groups : \A h \in headers :
                       /\ out[g].level = 1
                       /\ out[g].text = textNonFeatureWorkHeader \o ColonSpace
                       /\ out[h].level = 2
                       /\ out[h].text = MiscHeader
                       /\ g < h
                       /\ \A f \in features : f < g
                       /\ \A d \in PositionsAt("Completed", "description", EmptyString) :
                             h < d /\ out[d].level = 3
                 /\ [ i \in 1..Len(written) |-> written[i].text ]
                       = DescriptionsOfRecords(records)

\* two completed records with an empty key on different dates, each with a
\* description, reported under "Misc"
C15_Witness ==
    /\ Reported
    /\ EmptyString \in DOMAIN result.Completed
    /\ LET taskList == result.Completed[EmptyString]
       IN  /\ Len(taskList) = 2
           /\ taskList[1].Date # taskList[2].Date
           /\ Len(GetDescriptions(taskList[1].Task)) > 0
           /\ Len(GetDescriptions(taskList[2].Task)) > 0
    /\ Len(LinesAt("Completed", "description", EmptyString)) >= 2

----------------------------------------------------------------------------
(* C16 *)

\* the records of R as a list of TaskWithDate in traversal order
ListOf(R) ==
    LET records == InTraversalOrder(R)
    IN  [ i \in 1..Len(records) |-> AsTaskWithDate(records[i]) ]

\* the record of the range that is the most recent one of the key s of
\* mostRecentTasks: the first seen of those with the greatest date
MostRecentOf(s) == FirstOf(LatestIn(TrackedUnder(s, InRange)))

\* the three views as functions of workData and dates alone
CompletedOf ==
    LET R == { r \in InRange : CountsAsCompleted(TaskAt(r)) }
    IN  [ K \in KeysIn(R) |-> ListOf(RecordsOf(K, R)) ]

NextUpOf ==
    LET R    == { r \in InRange : TaskAt(r).UpnextDescription # EmptyString }
        kept == { K \in KeysIn(R) : StillOpen(AsTaskWithDate(MostRecentOf(TaskKey(K)))) }
    IN  [ K \in kept |-> ListOf(RecordsOf(K, R)) ]

BlockedOf ==
    { task \in { TaskAt(MostRecentOf(TaskKey(K))) : K \in KeysIn(InRange) } :
        task.Blocker # EmptyString }

\* C16: the Completed mapping, the NextUp mapping and the set of Blocked
\* records that CategorizeTasks returns are functions of the work log and
\* the date sequence, so two runs on the same arguments return the same.
C16_ResultDependsOnArgumentsOnly ==
    Returned =>
        /\ result.Completed = CompletedOf
        /\ result.NextUp = NextUpOf
        /\ { result.Blocked[i] : i \in 1..Len(result.Blocked) } = BlockedOf

\* a result with two blocked records, which the range over the map may
\* return in either order, and entries in Completed and NextUp
C16_Witness ==
    /\ Returned
    /\ Len(result.Blocked) = 2
    /\ StrLess(result.Blocked[2].JiraTicket, result.Blocked[1].JiraTicket)
    /\ DOMAIN result.NextUp # {}

----------------------------------------------------------------------------
(* C17 *)

AllViewsEmpty ==
    /\ DOMAIN result.Completed = {}
    /\ DOMAIN result.NextUp = {}
    /\ Len(result.Blocked) = 0

\* C17: CategorizeTasks returns three empty views when the date sequence or
\* the work log is empty, and the step taken at a date that is absent from
\* the work log goes on to the next date and changes none of the maps the
\* views are made of.
C17_EmptyInputsAndAbsentDates ==
    /\ [](Returned /\ (Len(dates) = 0 \/ DOMAIN workData = {}) => AllViewsEmpty)
    /\ [][ (InLoop /\ dates[di] \notin DOMAIN workData) =>
              /\ completedTasks' = completedTasks
              /\ allNextUpTasks' = allNextUpTasks
              /\ mostRecentTasks' = mostRecentTasks
              /\ di' = di + 1
              /\ pc' = "loop" ]_vars

\* a date of the sequence was absent from the work log and a later date
\* contributed a completed record
C17_Witness ==
    /\ Returned
    /\ \E i, j \in 1..Len(dates) :
          /\ i < j
          /\ dates[i] \notin DOMAIN workData
          /\ dates[j] \in DOMAIN workData
    /\ DOMAIN result.Completed # {}

----------------------------------------------------------------------------
(* C18 *)

\* C18: a key with a ticket ID has its own most recent record, its own
\* Completed and NextUp entries and its own Blocked record, decided by the
\* records that carry exactly this key: the records of another key with the
\* same ticket ID (the URL form against the bare ID) do not count.
C18_KeysAreExactStrings ==
    Returned =>
        \A K \in KeysIn(InRange) :
            ExtractTicketID(K) # EmptyString =>
                LET own == FirstOf(LatestOf(K, InRange))
                IN  /\ K \in DOMAIN mostRecentTasks
                    /\ mostRecentTasks[K] = AsTaskWithDate(own)
                    /\ K \in DOMAIN result.Completed =>
                          \A i \in 1..Len(result.Completed[K]) :
                              result.Completed[K][i].Task.JiraTicket = K
                    /\ K \in DOMAIN result.NextUp =>
                          \A i \in 1..Len(result.NextUp[K]) :
                              result.NextUp[K][i].Task.JiraTicket = K
                    /\ (K \in DOMAIN result.NextUp)
                          = (/\ \E r \in RecordsOf(K, InRange) :
                                    TaskAt(r).UpnextDescription # EmptyString
                             /\ (\/ IsStatus(TaskAt(own), StatusInProgress)
                                 \/ IsStatus(TaskAt(own), StatusNotStarted)))
                    /\ (BlockedFor(K) # {}) = (TaskAt(own).Blocker # EmptyString)
                    /\ \A i \in BlockedFor(K) : result.Blocked[i] = TaskAt(own)

\* the ticket is completed under its ID on the later date while its URL form
\* is still open, in NextUp and in Blocked
C18_Witness ==
    /\ Returned
    /\ KeySCR2 \in KeysIn(InRange)
    /\ IsStatus(TaskAt(FirstOf(LatestOf(KeySCR2, InRange))), StatusCompleted)
    /\ KeySCR2URL \in DOMAIN result.NextUp
    /\ BlockedFor(KeySCR2URL) # {}
    /\ \E r \in RecordsOf(KeySCR2, InRange) : \E q \in RecordsOf(KeySCR2URL, InRange) :
          StrLess(q.date, r.date)

----------------------------------------------------------------------------
(* internal/jira: the summary lookup and FormatTicketHTML *)

\* the anchor of FormatTicketHTML up to the URL: <a href="
AnchorOpen == <<60, 97, 32, 104, 114, 101, 102, 61, 34>>
\* from the URL to the link text: " target="_blank">
AnchorTarget == <<34, 32, 116, 97, 114, 103, 101, 116, 61, 34, 95, 98, 108, 97, 110, 107, 34, 62>>
\* "</a>"
AnchorClose == <<60, 47, 97, 62>>
\* "&amp;"
EscapedAmp == <<38, 97, 109, 112, 59>>
\* "&lt;"
EscapedLt == <<38, 108, 116, 59>>
\* "&gt;"
EscapedGt == <<38, 103, 116, 59>>
\* "&#34;"
EscapedQuote == <<38, 35, 51, 52, 59>>
\* "&#39;"
EscapedApostrophe == <<38, 35, 51, 57, 59>>
\* "Fix"
TxtFix == <<70, 105, 120>>
\* "a<b"
TxtAltB == <<97, 60, 98>>
\* see SCR-2 & "co" (in double quotes)
TxtSeeSCR2 == <<115, 101, 101, 32, 83, 67, 82, 45, 50, 32, 38, 32, 34, 99, 111, 34>>
\* "ABC-1"
KeyABC1 == <<65, 66, 67, 45, 49>>

\* html.EscapeString
RECURSIVE EscapeString(_)
EscapeString(s) ==
    IF Len(s) = 0 THEN EmptyString
    ELSE (CASE Head(s) = 38 -> EscapedAmp
            [] Head(s) = 60 -> EscapedLt
            [] Head(s) = 62 -> EscapedGt
            [] Head(s) = 34 -> EscapedQuote
            [] Head(s) = 39 -> EscapedApostrophe
            [] OTHER -> << Head(s) >>)
         \o EscapeString(Tail(s))

\* jira.TicketInfo
NewTicketInfo(key, summary, url) == [ Key |-> key, Summary |-> summary, URL |-> url ]

\* fmt.Sprintf("%s/browse/%s", BaseURL, ticketID)
BrowseURL(ticketID) == BaseURL \o BrowsePath \o ticketID

\* FetchTicketSummary: outcome is what the environment does, "no-pat" (no
\* token set), "error" (request, status or decoding failed) or "ok" with the
\* summary of the response
FetchTicketSummary(ticketID, outcome) ==
    [ info |-> NewTicketInfo(ticketID,
                             IF outcome.kind = "ok" THEN outcome.summary
                             ELSE EmptyString,
                             BrowseURL(ticketID)),
      err  |-> outcome.kind = "error" ]

\* the variant that leaves out a ticket whose fetch failed
ProcessTickets_DropsFailed(tickets, outcomes) ==
    LET ids == { ExtractTicketID(ticketReference) :
                   ticketReference \in DOMAIN tickets \ { EmptyString } }
                 \ { EmptyString }
        fetched == { ticketID \in ids : ~FetchTicketSummary(ticketID, outcomes[ticketID]).err }
    IN  [ ticketID \in fetched |-> FetchTicketSummary(ticketID, outcomes[ticketID]).info ]

\* ProcessTickets: outcomes gives the outcome of the fetch of each ticket ID
ProcessTickets(tickets, outcomes) ==
    LET ids == { ExtractTicketID(ticketReference) :
                   ticketReference \in DOMAIN tickets \ { EmptyString } }
                 \ { EmptyString }
    IN  [ ticketID \in ids |->
            LET fetched == FetchTicketSummary(ticketID, outcomes[ticketID])
            IN  IF ~fetched.err THEN fetched.info
                ELSE NewTicketInfo(ticketID, EmptyString, BrowseURL(ticketID)) ]

\* LoadSummariesFromFile, after the file was read and parsed into summaries:
\* an empty URL is set from info.Key first, an empty Key from the map key then
LoadSummariesFromFile(summaries) ==
    [ key \in DOMAIN summaries |->
        LET info    == summaries[key]
            withURL == IF info.URL = EmptyString
                       THEN NewTicketInfo(info.Key, info.Summary, BrowseURL(info.Key))
                       ELSE info
        IN  IF withURL.Key = EmptyString
            THEN NewTicketInfo(key, withURL.Summary, withURL.URL)
            ELSE withURL ]

FormatTicketHTML(ticketReference, jiraInfo) ==
    LET ticketID == ExtractTicketID(ticketReference)
    IN  IF ticketID = EmptyString THEN EscapeString(ticketReference)
        ELSE IF ticketID \notin DOMAIN jiraInfo
        THEN AnchorOpen \o BrowseURL(ticketID) \o AnchorTarget
                 \o EscapeString(ticketID) \o AnchorClose
        ELSE LET info     == jiraInfo[ticketID]
                 linkText == IF info.Summary # EmptyString
                             THEN info.Key \o ColonSpace \o info.Summary
                             ELSE info.Key
             IN  AnchorOpen \o info.URL \o AnchorTarget
                     \o EscapeString(linkText) \o AnchorClose

\* the ticket references formatted: no ID, an ID, its URL form, an ID inside
\* text that needs escaping, and an ID the lookup never has
LookupTickets ==
    { EmptyString, KeySCR2, KeySCR2URL, KeyNoJiraCleanup, TxtAltB, TxtSeeSCR2,
      emptyTicketKey, KeyABC1 }

\* what the environment does to the fetch of a ticket ID
FetchOutcomes ==
    { [ kind |-> "no-pat", summary |-> EmptyString ],
      [ kind |-> "error",  summary |-> EmptyString ],
      [ kind |-> "ok",     summary |-> EmptyString ],
      [ kind |-> "ok",     summary |-> TxtFix ],
      [ kind |-> "ok",     summary |-> TxtAltB ] }

\* the parsed summaries files: no entry, or one entry for SCR-2 that gives or
\* omits its Key, its Summary and its URL
SummariesFiles ==
    { EmptyMap }
    \cup { [ key \in { KeySCR2 } |-> NewTicketInfo(k, sm, u) ] :
             k \in { EmptyString, KeySCR2 },
             sm \in { EmptyString, TxtFix, TxtAltB },
             u \in { EmptyString, BrowseURL(KeySCR2) } }

InitLookup ==
    /\ \/ call \in [ fn : { "none" }, source : { "ProcessTickets" },
                     ticket : LookupTickets, outcome : FetchOutcomes,
                     file : { EmptyMap } ]
       \/ call \in [ fn : { "none" }, source : { "LoadSummariesFromFile" },
                     ticket : LookupTickets,
                     outcome : { [ kind |-> "no-pat", summary |-> EmptyString ] },
                     file : SummariesFiles ]
    /\ ret = NoResult
    /\ pc = "call"
    /\ workData = EmptyMap
    /\ dates = << >>
    /\ di = 1
    /\ ti = 1
    /\ completedTasks = EmptyMap
    /\ allNextUpTasks = EmptyMap
    /\ mostRecentTasks = EmptyMap
    /\ result = NoResult
    /\ out = << >>

\* jiraInfo := jira.ProcessTickets(allTickets), the ticket being the one key
CallProcessTickets ==
    /\ pc = "call"
    /\ call.fn = "none"
    /\ call.source = "ProcessTickets"
    /\ call' = [ call EXCEPT !.fn = "ProcessTickets" ]
    /\ ret' = [ jiraInfo |->
                  ProcessTickets([ t \in { call.ticket } |-> << >> ],
                                 [ id \in { ExtractTicketID(call.ticket) } |->
                                     call.outcome ]) ]
    /\ UNCHANGED << workData, dates, di, ti, completedTasks, allNextUpTasks,
                    mostRecentTasks, pc, result, out >>

\* jiraInfo, err := jira.LoadSummariesFromFile(path), the file being readable
CallLoadSummariesFromFile ==
    /\ pc = "call"
    /\ call.fn = "none"
    /\ call.source = "LoadSummariesFromFile"
    /\ call' = [ call EXCEPT !.fn = "LoadSummariesFromFile" ]
    /\ ret' = [ jiraInfo |-> LoadSummariesFromFile(call.file) ]
    /\ UNCHANGED << workData, dates, di, ti, completedTasks, allNextUpTasks,
                    mostRecentTasks, pc, result, out >>

\* jira.FormatTicketHTML(ticket, jiraInfo)
CallFormatTicketHTML ==
    /\ pc = "call"
    /\ call.fn \in { "ProcessTickets", "LoadSummariesFromFile" }
    /\ call' = [ call EXCEPT !.fn = "FormatTicketHTML" ]
    /\ ret' = [ jiraInfo |-> ret.jiraInfo,
                html     |-> FormatTicketHTML(call.ticket, ret.jiraInfo) ]
    /\ pc' = "returned"
    /\ UNCHANGED << workData, dates, di, ti, completedTasks, allNextUpTasks,
                    mostRecentTasks, result, out >>

NextLookup ==
    \/ CallProcessTickets
    \/ CallLoadSummariesFromFile
    \/ CallFormatTicketHTML

SpecLookup == InitLookup /\ [][NextLookup]_vars

----------------------------------------------------------------------------
(* C19 *)

\* C19: for a key from which the ticket ID X is extracted, FormatTicketHTML
\* returns the anchor whose href is the canonical browse URL of X and whose
\* text is "X: summary" when the lookup has a non-empty summary for X and X
\* otherwise; for a key without an ID it returns the escaped key, no anchor.
C19_AnchorToCanonicalURL ==
    (pc = "returned" /\ call.fn = "FormatTicketHTML") =>
        LET X == ExtractTicketID(call.ticket)
            summary == IF X \in DOMAIN ret.jiraInfo
                       THEN ret.jiraInfo[X].Summary ELSE EmptyString
            text == IF summary # EmptyString
                    THEN X \o ColonSpace \o summary ELSE X
        IN  IF X = EmptyString
            THEN /\ ret.html = EscapeString(call.ticket)
                 /\ ~Contains(ret.html, AnchorOpen)
            ELSE ret.html = AnchorOpen \o BrowseURL(X) \o AnchorTarget
                                \o EscapeString(text) \o AnchorClose

----------------------------------------------------------------------------
(* cmd/main.go: generateHTMLReport *)

\* the text of the first <h2> after its emoji
HtmlHeaderCompleted == <<84, 104, 105, 110, 103, 115, 32, 73, 39, 118, 101, 32, 98, 101, 101, 110, 32, 119, 111, 114, 107, 105, 110, 103, 32, 111, 110>>
\* the text of the second <h2> after its emoji
HtmlHeaderNextUp == <<84, 104, 105, 110, 103, 115, 32, 73, 32, 112, 108, 97, 110, 32, 111, 110, 32, 119, 111, 114, 107, 105, 110, 103, 32, 111, 110, 32, 110, 101, 120, 116>>
\* the text of the third <h2> after its emoji
HtmlHeaderBlocked == <<84, 104, 105, 110, 103, 115, 32, 116, 104, 97, 116, 32, 97, 114, 101, 32, 98, 108, 111, 99, 107, 105, 110, 103, 32, 109, 101>>
\* from the URL of a PR anchor to its text: ">
HrefEnd == <<34, 62>>
\* "PR: "
PrLabel == <<80, 82, 58, 32>>

\* fmt.Sprintf(`<a href="%s">%s</a>`, html.EscapeString(link), html.EscapeString(link))
PrAnchor(link) ==
    AnchorOpen \o EscapeString(link) \o HrefEnd \o EscapeString(link) \o AnchorClose

\* <li>PR(s): the anchors of the sorted links, separated by "; "
HtmlPrsText(links) ==
    PrsLabel \o Join([ i \in 1..Len(links) |-> PrAnchor(links[i]) ], PrsSeparator)

HtmlPrLine(section, ticket, taskList) ==
    IF PrLinks(taskList) = {} THEN << >>
    ELSE << Line(section, "prs", ticket, 2,
                 HtmlPrsText(SortStrings(PrLinks(taskList)))) >>

\* descriptions of a ticket in the HTML report: the non-empty Description
\* fields of the records
HtmlDescriptions(taskList) ==
    SelectSeq([ i \in 1..Len(taskList) |-> taskList[i].Task.Description ],
              LAMBDA d : d # EmptyString)

\* the items of a completed ticket: <li><strong>ticket</strong>, one <li> per
\* description and the <li> of the PRs
HtmlCompletedTicket(ticket, taskList, jiraInfo) ==
    << Line("Completed", "entry", ticket, 1, FormatTicketHTML(ticket, jiraInfo)) >>
        \o [ i \in 1..Len(HtmlDescriptions(taskList)) |->
               Line("Completed", "description", ticket, 2,
                    EscapeString(HtmlDescriptions(taskList)[i])) ]
        \o HtmlPrLine("Completed", ticket, taskList)

\* the items of the completed records without ticket: a bare <li>, then per
\* record the <li> of its Description and the <li> of its PR
RECURSIVE HtmlCompletedRecords(_)
HtmlCompletedRecords(taskList) ==
    IF Len(taskList) = 0 THEN << >>
    ELSE << Line("Completed", "description", EmptyString, 2,
                 EscapeString(Head(taskList).Task.Description)) >>
         \o (IF Head(taskList).Task.GithubPR # EmptyString
             THEN << Line("Completed", "prs", EmptyString, 2,
                          PrLabel \o PrAnchor(Head(taskList).Task.GithubPR)) >>
             ELSE << >>)
         \o HtmlCompletedRecords(Tail(taskList))

HtmlCompletedEntry(ticket, taskList, jiraInfo) ==
    IF ticket # EmptyString
    THEN HtmlCompletedTicket(ticket, SortByDate(taskList), jiraInfo)
    ELSE << Line("Completed", "entry", EmptyString, 1, EmptyString) >>
             \o HtmlCompletedRecords(SortByDate(taskList))

RECURSIVE HtmlCompletedEntries(_, _, _)
HtmlCompletedEntries(tickets, tasks, jiraInfo) ==
    IF Len(tickets) = 0 THEN << >>
    ELSE HtmlCompletedEntry(Head(tickets), tasks[Head(tickets)], jiraInfo)
             \o HtmlCompletedEntries(Tail(tickets), tasks, jiraInfo)

\* the note of one record in the backwards loop of the HTML NextUp section
HtmlNoteOf(task) ==
    IF task.UpnextDescription # EmptyString THEN task.UpnextDescription
    ELSE task.Description

HtmlMostRecentDesc(taskList) ==
    LET noted == { i \in 1..Len(taskList) : HtmlNoteOf(taskList[i].Task) # EmptyString }
    IN  IF noted = {} THEN EmptyString
        ELSE HtmlNoteOf(taskList[CHOOSE i \in noted : \A j \in noted : j <= i].Task)

HtmlNextUpEntry(ticket, taskList, jiraInfo) ==
    LET sorted == SortByDate(taskList)
        last   == sorted[Len(sorted)].Task
    IN  IF ticket # EmptyString
        THEN << Line("NextUp", "entry", ticket, 1, FormatTicketHTML(ticket, jiraInfo)) >>
                 \o (IF HtmlMostRecentDesc(sorted) = EmptyString THEN << >>
                     ELSE << Line("NextUp", "description", ticket, 2,
                                  EscapeString(HtmlMostRecentDesc(sorted))) >>)
                 \o HtmlPrLine("NextUp", ticket, sorted)
        ELSE IF Len(sorted) = 0 THEN << >>
        ELSE << Line("NextUp", "entry", EmptyString, 1, EmptyString),
                Line("NextUp", "description", EmptyString, 2,
                     EscapeString(HtmlNoteOf(last))) >>
                 \o (IF last.GithubPR # EmptyString
                     THEN << Line("NextUp", "prs", EmptyString, 2,
                                  PrLabel \o PrAnchor(last.GithubPR)) >>
                     ELSE << >>)

RECURSIVE HtmlNextUpEntries(_, _, _)
HtmlNextUpEntries(tickets, nextUp, jiraInfo) ==
    IF Len(tickets) = 0 THEN << >>
    ELSE HtmlNextUpEntry(Head(tickets), nextUp[Head(tickets)], jiraInfo)
             \o HtmlNextUpEntries(Tail(tickets), nextUp, jiraInfo)

RECURSIVE HtmlBlockedEntries(_, _)
HtmlBlockedEntries(blocked, jiraInfo) ==
    IF Len(blocked) = 0 THEN << >>
    ELSE << Line("Blocked", "entry", Head(blocked).JiraTicket, 1,
                 FormatTicketHTML(Head(blocked).JiraTicket, jiraInfo)),
            Line("Blocked", "blocker", Head(blocked).JiraTicket, 2,
                 BlockerLabel \o EscapeString(Head(blocked).Blocker)) >>
             \o HtmlBlockedEntries(Tail(blocked), jiraInfo)

\* allTickets: the references whose summaries are fetched
AllTickets(completedTasks_, nextUpTasks, blockedTasks) ==
    DOMAIN completedTasks_ \cup DOMAIN nextUpTasks
        \cup ({ blockedTasks[i].JiraTicket : i \in 1..Len(blockedTasks) }
                  \ { EmptyString })

\* the items of the document after its title
HtmlItems(completedTasks_, nextUpTasks, blockedTasks, jiraInfo) ==
    (IF DOMAIN completedTasks_ = {} THEN << >>
     ELSE << Line("Completed", "header", EmptyString, 0, HtmlHeaderCompleted) >>
              \o HtmlCompletedEntries(SortStrings(DOMAIN completedTasks_),
                                      completedTasks_, jiraInfo))
    \o (IF DOMAIN nextUpTasks = {} THEN << >>
        ELSE << Line("NextUp", "header", EmptyString, 0, HtmlHeaderNextUp) >>
                 \o HtmlNextUpEntries(SortStrings(DOMAIN nextUpTasks),
                                      nextUpTasks, jiraInfo))
    \o (IF Len(blockedTasks) = 0 THEN << >>
        ELSE << Line("Blocked", "header", EmptyString, 0, HtmlHeaderBlocked) >>
                 \o HtmlBlockedEntries(blockedTasks, jiraInfo))

\* generateHTMLReport(dates, completedTasks, nextUpTasks, blockedTasks): the
\* title reads dates[0], which panics on an empty date sequence; the fetch
\* of each summary has an outcome the environment chooses
GenerateHTMLReport ==
    /\ pc = "reported"
    /\ call' = [ fn |-> "generateHTMLReport" ]
    /\ IF Len(dates) = 0
       THEN /\ ret' = [ panic |-> TRUE ]
            /\ pc' = "panic"
       ELSE /\ \E outcome \in { [ kind |-> "no-pat", summary |-> EmptyString ],
                                [ kind |-> "ok", summary |-> TxtFix ] } :
                 LET tickets  == AllTickets(result.Completed, result.NextUp,
                                            result.Blocked)
                     jiraInfo == ProcessTickets(
                                     [ t \in tickets |-> << >> ],
                                     [ id \in { ExtractTicketID(t) : t \in tickets } |->
                                         outcome ])
                 IN  ret' = [ from  |-> dates[1],
                              to    |-> dates[Len(dates)],
                              items |-> HtmlItems(result.Completed, result.NextUp,
                                                  result.Blocked, jiraInfo) ]
            /\ pc' = "html"
    /\ UNCHANGED << workData, dates, di, ti, completedTasks, allNextUpTasks,
                    mostRecentTasks, result, out >>

\* the report command with an HTML output option
NextHTMLReport ==
    \/ SkipDate
    \/ ProcessTask
    \/ NextDate
    \/ FilterAndReturn
    \/ PrintCompletedTasks
    \/ PrintNextUpTasks
    \/ PrintBlockedTasks
    \/ GenerateHTMLReport

\* closed and open work under the empty key and a ticket, with and without
\* an upnext description, a PR and a blocker
HTMLPool ==
    TaskPool({ InCompletedCap, StatusInProgress },
             { TxtDid }, { << >> },
             { EmptyString, KeySCR2 },
             { EmptyString, TxtNext },
             { EmptyString, TxtPr1 },
             { EmptyString, TxtWait })

InitHTML == InitCategorize(HTMLPool)

SpecHTML == InitHTML /\ [][NextHTMLReport]_vars

----------------------------------------------------------------------------
(* C20 *)

\* C20: the HTML report has the items of the text report: item by item the
\* same section, the same kind of item for the same key at the same depth
\* (so the feature keys in ascending order first and the non-feature items
\* in the trailing group "Non-feature work"), the same description or note
\* (escaped) and the same PR references.
C20_HtmlMirrorsText ==
    pc = "html" =>
        /\ Len(ret.items) = Len(out)
        /\ \A i \in 1..Len(out) :
              i <= Len(ret.items) =>
                 /\ ret.items[i].section = out[i].section
                 /\ ret.items[i].site = out[i].site
                 /\ ret.items[i].ticket = out[i].ticket
                 /\ ret.items[i].level = out[i].level
                 /\ out[i].site = "description" =>
                       ret.items[i].text = EscapeString(out[i].text)
                 /\ out[i].site = "prs" =>
                       \E links \in SUBSET { TxtPr1, TxtPr2 } :
                           \E o \in Orders(links) :
                               /\ out[i].text = PrsLabel \o Join(o, PrsSeparator)
                               /\ ret.items[i].text = HtmlPrsText(o)

----------------------------------------------------------------------------
(* C21 *)

\* C21: after CategorizeTasks, no key of NextUp has a most recent record
\* with a non-empty blocker, and no key has both an entry in NextUp and a
\* record in Blocked.
C21_NextUpHasNoBlocker ==
    Returned =>
        \A K \in DOMAIN result.NextUp :
            /\ \A r \in LatestOf(K, InRange) : TaskAt(r).Blocker = EmptyString
            /\ BlockedFor(K) = {}

----------------------------------------------------------------------------
(* C22 *)

\* the IDs of the references of LookupTickets
LookupIDs == { ExtractTicketID(t) : t \in LookupTickets } \ { EmptyString }

\* ProcessTickets is called on a map of ticket references; the environment
\* fixes the outcome of the fetch of each ID
InitProcessTickets ==
    /\ \E refs \in SUBSET LookupTickets :
          \E outcomes \in [ LookupIDs -> FetchOutcomes ] :
              call = [ fn |-> "none", tickets |-> refs, outcomes |-> outcomes ]
    /\ ret = NoResult
    /\ pc = "call"
    /\ workData = EmptyMap
    /\ dates = << >>
    /\ di = 1
    /\ ti = 1
    /\ completedTasks = EmptyMap
    /\ allNextUpTasks = EmptyMap
    /\ mostRecentTasks = EmptyMap
    /\ result = NoResult
    /\ out = << >>

\* jiraInfo := jira.ProcessTickets(allTickets)
CallProcessTicketsMap ==
    /\ pc = "call"
    /\ call.fn = "none"
    /\ call' = [ call EXCEPT !.fn = "ProcessTickets" ]
    /\ ret' = [ jiraInfo |->
                  ProcessTickets([ t \in call.tickets |-> << >> ], call.outcomes) ]
    /\ pc' = "returned"
    /\ UNCHANGED << workData, dates, di, ti, completedTasks, allNextUpTasks,
                    mostRecentTasks, result, out >>

NextProcessTickets == CallProcessTicketsMap

SpecProcessTickets == InitProcessTickets /\ [][NextProcessTickets]_vars

\* C22: after ProcessTickets, every non-empty reference from which an ID X is
\* extracted has an entry under X with Key X and the canonical browse URL of
\* X, whatever the outcome of the fetch; a failed fetch leaves the summary
\* empty, a successful one stores the fetched summary, and the map has no
\* other entries.
C22_EveryTicketHasAnEntry ==
    (pc = "returned" /\ call.fn = "ProcessTickets") =>
        /\ \A t \in call.tickets \ { EmptyString } :
              LET X == ExtractTicketID(t)
              IN  X # EmptyString =>
                     /\ X \in DOMAIN ret.jiraInfo
                     /\ ret.jiraInfo[X].Key = X
                     /\ ret.jiraInfo[X].URL = BaseURL \o BrowsePath \o X
                     /\ call.outcomes[X].kind # "ok" =>
                           ret.jiraInfo[X].Summary = EmptyString
                     /\ call.outcomes[X].kind = "ok" =>
                           ret.jiraInfo[X].Summary = call.outcomes[X].summary
        /\ \A X \in DOMAIN ret.jiraInfo :
              \E t \in call.tickets \ { EmptyString } : ExtractTicketID(t) = X

\* two tickets, the fetch of one failed and the fetch of the other gave a
\* summary: both have their entry
C22_Witness ==
    /\ pc = "returned"
    /\ call.fn = "ProcessTickets"
    /\ call.tickets = { KeySCR2URL, KeyABC1, EmptyString, KeyNoJiraCleanup }
    /\ call.outcomes[KeySCR2].kind = "error"
    /\ call.outcomes[KeyABC1] = [ kind |-> "ok", summary |-> TxtFix ]
    /\ DOMAIN ret.jiraInfo = { KeySCR2, KeyABC1 }
    /\ ret.jiraInfo[KeySCR2].Summary = EmptyString
    /\ ret.jiraInfo[KeyABC1].Summary = TxtFix

----------------------------------------------------------------------------
(* cmd/main.go: getDatesInRange and runHoursCommand *)

\* "2025-01-30"
DateJan30 == <<50, 48, 50, 53, 45, 48, 49, 45, 51, 48>>
\* "2025-01-31"
DateJan31 == <<50, 48, 50, 53, 45, 48, 49, 45, 51, 49>>
\* "2025-02-01"
DateFeb01 == <<50, 48, 50, 53, 45, 48, 50, 45, 48, 49>>
\* "2025-02-02"
DateFeb02 == <<50, 48, 50, 53, 45, 48, 50, 45, 48, 50>>
\* "2025-02-30", a day that the month does not have
DateFeb30 == <<50, 48, 50, 53, 45, 48, 50, 45, 51, 48>>
\* "2025-2-1", not in the layout 2006-01-02
DateShort == <<50, 48, 50, 53, 45, 50, 45, 49>>
\* "2025-02-01x", a key of the work log that is no date and sorts between two
\* dates
KeyFeb01x == <<50, 48, 50, 53, 45, 48, 50, 45, 48, 49, 120>>
\* "notes", a key of the work log that is no date
KeyNotes == <<110, 111, 116, 101, 115>>
\* "09:00"
Clock0900 == <<48, 57, 58, 48, 48>>
\* "12:30"
Clock1230 == <<49, 50, 58, 51, 48>>
\* "13:30"
Clock1330 == <<49, 51, 58, 51, 48>>
\* "17:00"
Clock1700 == <<49, 55, 58, 48, 48>>
\* "9:00"
Clock900 == <<57, 58, 48, 48>>
\* "24:00", an hour out of range
Clock2400 == <<50, 52, 58, 48, 48>>
\* "noon"
ClockNoon == <<110, 111, 111, 110>>

Dash == 45
Colon == 58

DigitValue(c) == c - 48

\* the number written by the digits s[from..to]
RECURSIVE Atoi(_, _, _)
Atoi(s, from, to) ==
    IF to < from THEN 0
    ELSE Atoi(s, from, to - 1) * 10 + DigitValue(s[to])

AllDigits(s, from, to) == \A i \in from..to : IsDigit(s[i])

IsLeap(year) == year % 4 = 0 /\ (year % 100 # 0 \/ year % 400 = 0)

\* time: daysIn(month, year)
DaysIn(month, year) ==
    IF month = 2 THEN (IF IsLeap(year) THEN 29 ELSE 28)
    ELSE IF month \in { 4, 6, 9, 11 } THEN 30
    ELSE 31

NewDay(year, month, day) == [ year |-> year, month |-> month, day |-> day ]

\* time.Parse("2006-01-02", s) succeeds: four digits, two digits, two digits,
\* a month of the year and a day of that month, and nothing more
ParsesAsDate(s) ==
    /\ Len(s) = 10
    /\ AllDigits(s, 1, 4) /\ s[5] = Dash
    /\ AllDigits(s, 6, 7) /\ s[8] = Dash
    /\ AllDigits(s, 9, 10)
    /\ Atoi(s, 6, 7) \in 1..12
    /\ Atoi(s, 9, 10) \in 1..DaysIn(Atoi(s, 6, 7), Atoi(s, 1, 4))

\* the time.Time of a string that parses
ParseDate(s) == NewDay(Atoi(s, 1, 4), Atoi(s, 6, 7), Atoi(s, 9, 10))

\* the decimal digits of n, zero-padded to width characters
RECURSIVE Digits(_, _)
Digits(n, width) ==
    IF width = 0 THEN << >>
    ELSE Digits(n \div 10, width - 1) \o << 48 + (n % 10) >>

\* d.Format("2006-01-02")
FormatDate(d) ==
    Digits(d.year, 4) \o << Dash >> \o Digits(d.month, 2) \o << Dash >>
        \o Digits(d.day, 2)

\* d.Before(e) and d.After(e)
DayBefore(d, e) ==
    \/ d.year < e.year
    \/ (d.year = e.year /\ d.month < e.month)
    \/ (d.year = e.year /\ d.month = e.month /\ d.day < e.day)

DayAfter(d, e) == DayBefore(e, d)

\* d.AddDate(0, 0, 1)
AddDay(d) ==
    IF d.day < DaysIn(d.month, d.year) THEN NewDay(d.year, d.month, d.day + 1)
    ELSE IF d.month < 12 THEN NewDay(d.year, d.month + 1, 1)
    ELSE NewDay(d.year + 1, 1, 1)

\* the variant of the loop that stops before the end date
RECURSIVE DatesInRange_EndExcluded(_, _, _)
DatesInRange_EndExcluded(d, endDate, data) ==
    IF ~DayBefore(d, endDate) THEN << >>
    ELSE (IF FormatDate(d) \in DOMAIN data THEN << FormatDate(d) >> ELSE << >>)
             \o DatesInRange_EndExcluded(AddDay(d), endDate, data)

\* lines 779-785: the days from d to endDate that are keys of the work data
RECURSIVE DatesInRange(_, _, _)
DatesInRange(d, endDate, data) ==
    IF DayAfter(d, endDate) THEN << >>
    ELSE (IF FormatDate(d) \in DOMAIN data THEN << FormatDate(d) >> ELSE << >>)
             \o DatesInRange(AddDay(d), endDate, data)

DatesResult(ds, err) == [ dates |-> ds, err |-> err ]

\* getDatesInRange(workData, startStr, endStr): the dates and the error, "nil"
\* when there is none
getDatesInRange(data, startStr, endStr) ==
    LET endStr1   == IF startStr # EmptyString /\ endStr = EmptyString
                     THEN startStr ELSE endStr
        startStr1 == IF endStr1 # EmptyString /\ startStr = EmptyString
                     THEN endStr1 ELSE startStr
    IN  IF startStr1 = EmptyString /\ endStr1 = EmptyString
        THEN IF DOMAIN data = {}
             THEN DatesResult(<< >>, "no data found in the work log file")
             ELSE DatesResult(SortStrings(DOMAIN data), "nil")
        ELSE IF ~ParsesAsDate(startStr1)
        THEN DatesResult(<< >>, "invalid start date format")
        ELSE IF ~ParsesAsDate(endStr1)
        THEN DatesResult(<< >>, "invalid end date format")
        ELSE IF DayBefore(ParseDate(endStr1), ParseDate(startStr1))
        THEN DatesResult(<< >>, "end date cannot be before start date")
        ELSE LET datesInRange == DatesInRange(ParseDate(startStr1),
                                              ParseDate(endStr1), data)
             IN  IF Len(datesInRange) = 0
                 THEN DatesResult(<< >>, "no data found for the specified date range")
                 ELSE DatesResult(
                          SortStrings({ datesInRange[i] : i \in 1..Len(datesInRange) }),
                          "nil")

\* time.Parse("15:04", s) succeeds: an hour of one or two digits below 24, a
\* colon, a minute of two digits below 60, and nothing more
HourLen(s) == IF Len(s) >= 2 /\ IsDigit(s[1]) /\ IsDigit(s[2]) THEN 2 ELSE 1

ParsesAsClock(s) ==
    /\ Len(s) >= 1
    /\ IsDigit(s[1])
    /\ Len(s) = HourLen(s) + 3
    /\ s[HourLen(s) + 1] = Colon
    /\ AllDigits(s, HourLen(s) + 2, HourLen(s) + 3)
    /\ Atoi(s, 1, HourLen(s)) < 24
    /\ Atoi(s, HourLen(s) + 2, HourLen(s) + 3) < 60

\* the minutes after midnight of a string that parses
ParseClock(s) ==
    Atoi(s, 1, HourLen(s)) * 60 + Atoi(s, HourLen(s) + 2, HourLen(s) + 3)

NewWorkLog(startTime, endTime) == [ StartTime |-> startTime, EndTime |-> endTime ]

\* the variant that counts an entry that does not parse as lasting to its end
EntryMinutes_CountsUnparsed(logEntry) ==
    IF ParsesAsClock(logEntry.EndTime)
    THEN ParseClock(logEntry.EndTime)
             - (IF ParsesAsClock(logEntry.StartTime)
                THEN ParseClock(logEntry.StartTime) ELSE 0)
    ELSE 0

\* lines 291-297: what one entry adds to totalDuration, in minutes
EntryMinutes(logEntry) ==
    IF ~ParsesAsClock(logEntry.StartTime) \/ ~ParsesAsClock(logEntry.EndTime)
    THEN 0
    ELSE ParseClock(logEntry.EndTime) - ParseClock(logEntry.StartTime)

RECURSIVE DayMinutes(_)
DayMinutes(entries) ==
    IF Len(entries) = 0 THEN 0
    ELSE EntryMinutes(Head(entries)) + DayMinutes(Tail(entries))

\* fmt %.2f of totalDuration.Hours(): the hundredths of an hour nearest to
\* the minutes (no number of minutes lies halfway between two hundredths)
HoursHundredths(minutes) ==
    IF minutes >= 0 THEN (minutes * 100 + 30) \div 60
    ELSE 0 - ((0 - minutes) * 100 + 30) \div 60

\* lines 278-282: the dates are selected, or the command exits on the error
SelectDates ==
    /\ pc = "runHoursCommand"
    /\ ret' = getDatesInRange(workData, call.startStr, call.endStr)
    /\ dates' = ret'.dates
    /\ pc' = IF ret'.err # "nil" THEN "exit" ELSE "sum"
    /\ di' = 1
    /\ UNCHANGED << workData, ti, completedTasks, allNextUpTasks,
                    mostRecentTasks, result, call, out >>

\* lines 285-298: one iteration of the loop over the dates
SumDate ==
    /\ pc = "sum"
    /\ di <= Len(dates)
    /\ result' = [ totalDuration |->
                     IF dates[di] \notin DOMAIN workData THEN result.totalDuration
                     ELSE result.totalDuration
                              + DayMinutes(workData[dates[di]].WorkLogEntries) ]
    /\ di' = di + 1
    /\ UNCHANGED << workData, dates, ti, completedTasks, allNextUpTasks,
                    mostRecentTasks, pc, call, ret, out >>

\* line 302: the total is printed; dates[0] panics on an empty sequence
PrintTotal ==
    /\ pc = "sum"
    /\ di > Len(dates)
    /\ IF Len(dates) = 0
       THEN /\ pc' = "panic"
            /\ out' = out
       ELSE /\ pc' = "printed"
            /\ out' = << [ from  |-> dates[1],
                           to    |-> dates[Len(dates)],
                           hours |-> HoursHundredths(result.totalDuration) ] >>
    /\ UNCHANGED << workData, dates, di, ti, completedTasks, allNextUpTasks,
                    mostRecentTasks, result, call, ret >>

NextHours ==
    \/ SelectDates
    \/ SumDate
    \/ PrintTotal

\* the hours command is entered with the loaded work data and its two flags
InitHours(logs, flags) ==
    /\ workData \in logs
    /\ call \in [ fn : { "runHoursCommand" }, startStr : flags, endStr : flags ]
    /\ pc = "runHoursCommand"
    /\ dates = << >>
    /\ di = 1
    /\ ti = 1
    /\ completedTasks = EmptyMap
    /\ allNextUpTasks = EmptyMap
    /\ mostRecentTasks = EmptyMap
    /\ result = [ totalDuration |-> 0 ]
    /\ ret = NoResult
    /\ out = << >>

EmptyDay == [ WorkLogEntries |-> << >>, Tasks |-> << >> ]

\* work logs over days around the end of a month and keys that are no dates
RangeLogs ==
    { [ d \in D |-> EmptyDay ] :
        D \in SUBSET { DateJan31, DateFeb01, DateFeb02, KeyFeb01x, KeyNotes } }

RangeFlags ==
    { EmptyString, DateJan30, DateJan31, DateFeb01, DateFeb02, DateFeb30,
      DateShort }

InitRange == InitHours(RangeLogs, RangeFlags)

SpecRange == InitRange /\ [][NextHours]_vars

----------------------------------------------------------------------------
(* C23 *)

\* the bounds the flags give: a single given flag is both bounds
LowerBound == IF call.startStr # EmptyString THEN call.startStr ELSE call.endStr
UpperBound == IF call.endStr # EmptyString THEN call.endStr ELSE call.startStr

BoundsGiven == call.startStr # EmptyString \/ call.endStr # EmptyString

\* the dates among the keys of the work log that lie between the bounds, the
\* bounds included
KeysBetween ==
    { k \in DOMAIN workData :
        /\ ParsesAsDate(k)
        /\ ~StrLess(k, LowerBound)
        /\ ~StrLess(UpperBound, k) }

Selected == pc \in { "sum", "exit", "printed", "panic" }

\* C23: when getDatesInRange returns without error, its dates are non-empty,
\* strictly ascending, keys of the work log and, when a flag was given,
\* between the bounds (a single flag being both bounds); with dates as
\* bounds it returns an error exactly when the end precedes the start or no
\* key of the work log lies between them, and without flags exactly when the
\* work log is empty; the command goes on only without error, so it never
\* reads dates[0] of an empty sequence.
C23_SelectedDatesAreValid ==
    Selected =>
        /\ ret.err = "nil" =>
              /\ Len(ret.dates) > 0
              /\ \A i \in 1..Len(ret.dates) - 1 : StrLess(ret.dates[i], ret.dates[i + 1])
              /\ \A i \in 1..Len(ret.dates) : ret.dates[i] \in DOMAIN workData
              /\ BoundsGiven =>
                    \A i \in 1..Len(ret.dates) : ret.dates[i] \in KeysBetween
        /\ (BoundsGiven /\ ParsesAsDate(LowerBound) /\ ParsesAsDate(UpperBound)) =>
              (ret.err # "nil" <=>
                  (StrLess(UpperBound, LowerBound) \/ KeysBetween = {}))
        /\ ~BoundsGiven => (ret.err # "nil" <=> DOMAIN workData = {})
        /\ ret.err # "nil" => pc = "exit"
        /\ pc # "panic"
        /\ pc \in { "sum", "printed" } => (dates = ret.dates /\ Len(dates) > 0)
        /\ pc = "printed" =>
              (out[1].from = dates[1] /\ out[1].to = dates[Len(dates)])

\* a range over the end of January that holds two keys of the work log and
\* leaves out a third and the keys that are no dates
C23_Witness ==
    /\ pc = "printed"
    /\ call.startStr = DateJan30
    /\ call.endStr = DateFeb01
    /\ DOMAIN workData = { DateJan31, DateFeb01, DateFeb02, KeyFeb01x, KeyNotes }
    /\ ret.err = "nil"
    /\ dates = << DateJan31, DateFeb01 >>

----------------------------------------------------------------------------
(* C24 *)

\* the greatest number of work-log entries of a work log
MaxEntries == 2

\* entries that parse, with an hour of two digits and of one, that end before
\* they start, and that do not parse at their start or at their end
WorkLogPool ==
    { NewWorkLog(Clock0900, Clock1230), NewWorkLog(Clock1330, Clock1700),
      NewWorkLog(Clock900, Clock1230), NewWorkLog(Clock1700, Clock0900),
      NewWorkLog(ClockNoon, Clock1700), NewWorkLog(Clock0900, Clock2400) }

\* the work logs over the dates of the universe with at most MaxEntries
\* entries in all
HoursLogs ==
    UNION { UNION { { [ d \in D |->
                         [ WorkLogEntries |->
                             SubSeq(flat,
                                    SumOver(lens, { e \in D : StrLess(e, d) }) + 1,
                                    SumOver(lens, { e \in D : StrLess(e, d) }) + lens[d]),
                           Tasks |-> << >> ] ] :
                        flat \in [ 1..SumOver(lens, D) -> WorkLogPool ] } :
                    lens \in { l \in [ D -> 0..MaxEntries ] :
                                 SumOver(l, D) <= MaxEntries } } :
            D \in SUBSET DateUniverse }

HoursFlags == { EmptyString, Date1, Date2 }

InitHoursTotal == InitHours(HoursLogs, HoursFlags)

SpecHours == InitHoursTotal /\ [][NextHours]_vars

\* s reads as a time of day whose hour has w digits: the hour below 24, a
\* colon, two digits of minutes below 60
ReadsAsClock(s, w) ==
    /\ Len(s) = w + 3
    /\ \A i \in (1..w) \cup { w + 2, w + 3 } : IsDigit(s[i])
    /\ s[w + 1] = Colon
    /\ Atoi(s, 1, w) < 24
    /\ Atoi(s, w + 2, w + 3) < 60

\* the minutes after midnight of a time of day read with one of the widths
ClockMinutes(s, widths) ==
    LET w == CHOOSE v \in widths : ReadsAsClock(s, v)
    IN  Atoi(s, 1, w) * 60 + Atoi(s, w + 2, w + 3)

\* the entries of the selected dates, each named by its date and its place
SelectedEntries ==
    { e \in [ date : (IF BoundsGiven THEN KeysBetween ELSE DOMAIN workData),
              idx  : 1..MaxEntries + 1 ] :
        e.idx <= Len(workData[e.date].WorkLogEntries) }

\* end minus start of an entry whose two times read with the widths, nothing
\* for another entry
MinutesOfEntry(e, widths) ==
    LET logEntry == workData[e.date].WorkLogEntries[e.idx]
    IN  IF /\ \E w \in widths : ReadsAsClock(logEntry.StartTime, w)
           /\ \E w \in widths : ReadsAsClock(logEntry.EndTime, w)
        THEN ClockMinutes(logEntry.EndTime, widths)
                 - ClockMinutes(logEntry.StartTime, widths)
        ELSE 0

MinutesOfSelection(widths) ==
    SumOver([ e \in SelectedEntries |-> MinutesOfEntry(e, widths) ], SelectedEntries)

\* the total the command printed is that of the entries read with the widths
PrintsTotalOf(widths) ==
    pc = "printed" =>
        /\ result.totalDuration = MinutesOfSelection(widths)
        /\ out[1].hours * 60 - 30 <= MinutesOfSelection(widths) * 100
        /\ MinutesOfSelection(widths) * 100 <= out[1].hours * 60 + 30

\* C24: the hours command reports the sum, over the work-log entries of the
\* selected dates, of end minus start in minutes; an entry whose start or end
\* is not HH:MM (two digits, colon, two digits) adds nothing, and entries of
\* dates outside the selection add nothing.
C24_TotalOfHHMMEntries == PrintsTotalOf({ 2 })

\* C24 as amended: the same with the times the layout 15:04 accepts, whose
\* hour has one or two digits.
C24_TotalOfClockEntries == PrintsTotalOf({ 1, 2 })

\* 9:00-12:30 on the selected date and 13:30-17:00 on the other one: 3.50
\* hours
C24_Witness ==
    /\ pc = "printed"
    /\ call.startStr = Date1
    /\ call.endStr = EmptyString
    /\ DOMAIN workData = { Date1, Date2 }
    /\ workData[Date1].WorkLogEntries = << NewWorkLog(Clock900, Clock1230) >>
    /\ workData[Date2].WorkLogEntries = << NewWorkLog(Clock1330, Clock1700) >>
    /\ out[1].hours = 350

----------------------------------------------------------------------------
(* C25 *)

\* the records of key K in range that have an upnext description
NotedRecordsOf(K) ==
    { r \in RecordsOf(K, InRange) : TaskAt(r).UpnextDescription # EmptyString }

\* the most recent record of key K: the first seen of K's records of greatest
\* date; for the empty key these are the records of the pooled slot
MostRecentRecordOf(K) == FirstOf(LatestOf(K, InRange))

\* C25: K is a key of NextUp exactly when some record of K in range has an
\* upnext description and K's most recent record has status "in progress" or
\* "not started" (case-insensitive); NextUp[K] is then the sequence of all
\* records of K with an upnext description in traversal order, whatever
\* their own status.
C25_NextUpIsGatedCandidates ==
    Returned =>
        /\ DOMAIN result.NextUp \subseteq KeysIn(InRange)
        /\ \A K \in KeysIn(InRange) :
              /\ K \in DOMAIN result.NextUp <=>
                    /\ NotedRecordsOf(K) # {}
                    /\ \/ IsStatus(TaskAt(MostRecentRecordOf(K)), StatusInProgress)
                       \/ IsStatus(TaskAt(MostRecentRecordOf(K)), StatusNotStarted)
              /\ K \in DOMAIN result.NextUp =>
                    result.NextUp[K] = ListOf(NotedRecordsOf(K))

----------------------------------------------------------------------------
(* C26 *)

\* records without ticket, closed and open, with and without an upnext
\* description and a blocker
AnonymousPool ==
    TaskPool({ InCompletedCap, StatusInProgress }, { EmptyString }, { << >> },
             { EmptyString }, { EmptyString, TxtNext }, { EmptyString },
             { EmptyString, TxtWait })

\* records of other tickets logged next to them
NeighbourPool ==
    TaskPool({ InCompletedCap, StatusInProgress }, { EmptyString }, { << >> },
             { emptyTicketKey, KeySCR2 }, { EmptyString }, { EmptyString },
             { EmptyString, TxtWait })

\* a record without ticket on each of two dates, the later one after at most
\* one record of another ticket; either date may be missing from the work log
InitPooled ==
    /\ \E earlier \in AnonymousPool, later \in AnonymousPool :
          \E others \in { << >> } \cup { << x >> : x \in NeighbourPool } :
              \E D \in SUBSET DateUniverse :
                  workData = [ d \in D |->
                                 [ Tasks |-> IF d = Date1 THEN << earlier >>
                                             ELSE others \o << later >> ] ]
    /\ dates \in DateSequences
    /\ di = 1
    /\ ti = 1
    /\ completedTasks = EmptyMap
    /\ allNextUpTasks = EmptyMap
    /\ mostRecentTasks = EmptyMap
    /\ pc = "loop"
    /\ result = NoResult
    /\ call = NoCall
    /\ ret = NoResult
    /\ out = << >>

SpecPooled == InitPooled /\ [][Next]_vars

HasNoteOrBlocker(task) ==
    task.UpnextDescription # EmptyString \/ task.Blocker # EmptyString

ClosedWithoutBlocker(task) ==
    task.Blocker = EmptyString /\ IsStatus(task, StatusCompleted)

\* C26: when the records without ticket in range are two, on different
\* dates, and the later one is completed without blocker, no record without
\* ticket is in Blocked and the empty key is not in NextUp, whatever blocker
\* or upnext description the earlier one has; when instead the earlier one is
\* completed without blocker, the later one's blocker is in Blocked and, its
\* status being open, its upnext description puts the empty key in NextUp.
C26_PooledSlotFollowsLaterRecord ==
    Returned =>
        \A r, q \in RecordsOf(EmptyString, InRange) :
            (RecordsOf(EmptyString, InRange) = { r, q } /\ StrLess(r.date, q.date)) =>
                /\ (HasNoteOrBlocker(TaskAt(r)) /\ ClosedWithoutBlocker(TaskAt(q))) =>
                      /\ BlockedFor(EmptyString) = {}
                      /\ EmptyString \notin DOMAIN result.NextUp
                /\ (ClosedWithoutBlocker(TaskAt(r)) /\ HasNoteOrBlocker(TaskAt(q))) =>
                      /\ TaskAt(q).Blocker # EmptyString =>
                            \E i \in BlockedFor(EmptyString) :
                                result.Blocked[i] = TaskAt(q)
                      /\ (TaskAt(q).UpnextDescription # EmptyString
                              /\ StillOpen(AsTaskWithDate(q))) =>
                            EmptyString \in DOMAIN result.NextUp

----------------------------------------------------------------------------
(* C27 *)

\* open work under the empty key and a ticket, with a description or none
\* and with one of two upnext descriptions or none
NotePool ==
    TaskPool({ StatusInProgress }, { EmptyString, TxtDid }, { << >> },
             { EmptyString, KeySCR2 },
             { EmptyString, TxtNext, TxtMore },
             { EmptyString }, { EmptyString })

InitNote == InitCategorize(NotePool)

SpecNote == InitNote /\ [][NextReport]_vars

\* the record of key K whose upnext description is current: the last one in
\* traversal order of those of greatest date among K's records that have an
\* upnext description
CurrentNoteRecord(K) ==
    LastOf({ r \in NotedRecordsOf(K) :
               \A q \in NotedRecordsOf(K) : ~StrLess(r.date, q.date) })

\* C27: for every key of NextUp, feature or not, the NextUp section prints
\* exactly one note line, and it is the upnext description of the latest
\* dated record of NextUp[key] (the last of them in traversal order when
\* several share the date); every record of NextUp[key] has an upnext
\* description, so the description of a record is never printed instead.
C27_NoteIsLatestUpnext ==
    Reported =>
        \A K \in DOMAIN result.NextUp :
            /\ \A i \in 1..Len(result.NextUp[K]) :
                  result.NextUp[K][i].Task.UpnextDescription # EmptyString
            /\ Len(LinesAt("NextUp", "description", K)) = 1
            /\ LinesAt("NextUp", "description", K)[1].text
                  = TaskAt(CurrentNoteRecord(K)).UpnextDescription

\* a ticket and the empty key, each with two upnext descriptions on different
\* dates: the later one is printed
C27_Witness ==
    /\ Reported
    /\ \E K \in DOMAIN result.NextUp :
          /\ Len(result.NextUp[K]) = 2
          /\ result.NextUp[K][1].Task.UpnextDescription = TxtNext
          /\ result.NextUp[K][1].Task.Description = TxtDid
          /\ result.NextUp[K][2].Task.UpnextDescription = TxtMore
          /\ StrLess(result.NextUp[K][1].Date, result.NextUp[K][2].Date)
          /\ LinesAt("NextUp", "description", K)[1].text = TxtMore

----------------------------------------------------------------------------
(* C28 *)

\* closed and open work with one of two descriptions, under the empty key
\* and a ticket, with and without an upnext description
OrderPool ==
    TaskPool({ InCompletedCap, StatusInProgress }, { TxtDid, TxtMore }, { << >> },
             { EmptyString, KeySCR2 },
             { EmptyString, TxtNext },
             { EmptyString }, { EmptyString })

InitOrder == InitCategorize(OrderPool)

SpecOrder == InitOrder /\ [][NextReport]_vars

\* the dates of a list never decrease
DatesNeverDecrease(taskList) ==
    \A i \in 1..Len(taskList) - 1 : ~StrLess(taskList[i + 1].Date, taskList[i].Date)

\* the list is that of the records R in traversal order, and is not empty
IsTraversalListOf(taskList, R) ==
    /\ Len(taskList) > 0
    /\ DatesNeverDecrease(taskList)
    /\ taskList = ListOf(R)

CompletedRecordsOf(K) ==
    { r \in RecordsOf(K, InRange) : CountsAsCompleted(TaskAt(r)) }

HasResult == pc \in { "done", "PrintNextUpTasks", "PrintBlockedTasks", "reported" }

\* C28: every list of Completed and of NextUp that CategorizeTasks returns is
\* non-empty and holds its key's records in traversal order, so by
\* non-decreasing date and, within a date, in the order of the day's list;
\* the date sorts of the printers leave every list as it was, and the
\* descriptions of a completed key are printed record after record in that
\* order.
C28_ListsAreInDateOrder ==
    /\ [](HasResult =>
            /\ \A K \in DOMAIN result.Completed :
                  IsTraversalListOf(result.Completed[K], CompletedRecordsOf(K))
            /\ \A K \in DOMAIN result.NextUp :
                  IsTraversalListOf(result.NextUp[K], NotedRecordsOf(K)))
    /\ [][HasResult => result' = result]_vars
    /\ [](Reported =>
            \A K \in DOMAIN result.Completed :
                LET lines == LinesAt("Completed", "description", K)
                IN  [ i \in 1..Len(lines) |-> lines[i].text ]
                        = DescriptionsOfRecords(InTraversalOrder(CompletedRecordsOf(K))))

\* a key with two completed records on different dates, the earlier one with
\* the description that sorts last: it is printed first
C28_Witness ==
    /\ Reported
    /\ \E K \in DOMAIN result.Completed :
          /\ Len(result.Completed[K]) = 2
          /\ StrLess(result.Completed[K][1].Date, result.Completed[K][2].Date)
          /\ result.Completed[K][1].Task.Description = TxtMore
          /\ result.Completed[K][2].Task.Description = TxtDid
          /\ LinesAt("Completed", "description", K)[1].text = TxtMore
          /\ LinesAt("Completed", "description", K)[2].text = TxtDid

----------------------------------------------------------------------------
(* C29 *)

\* C29: after CategorizeTasks, Blocked holds at most one record of each key
\* (the records without ticket being those of one key), no more records than
\* there are keys in range, and only records with a blocker.
C29_BlockedAtMostOnePerKey ==
    Returned =>
        /\ \A K \in KeysIn(InRange) : Cardinality(BlockedFor(K)) <= 1
        /\ \A i \in 1..Len(result.Blocked) :
              /\ result.Blocked[i].JiraTicket \in KeysIn(InRange)
              /\ result.Blocked[i].Blocker # EmptyString
        /\ Len(result.Blocked) <= Cardinality(KeysIn(InRange))

\* two records without ticket on different dates, both with a blocker: one
\* record in Blocked
C29_Witness ==
    /\ Returned
    /\ \E r, q \in RecordsOf(EmptyString, InRange) :
          /\ StrLess(r.date, q.date)
          /\ TaskAt(r).Blocker # EmptyString
          /\ TaskAt(q).Blocker # EmptyString
    /\ Len(result.Blocked) = 1

----------------------------------------------------------------------------
(* C30 *)

\* C30: after LoadSummariesFromFile, every entry has a non-empty Key, the
\* one the file gave or else its map key, and a non-empty URL; an entry for
\* which the file gave no URL has the canonical browse URL of its resulting
\* Key, also when the file gave neither Key nor URL.
C30_LoadedEntriesHaveKeyAndURL ==
    (call.fn \in { "LoadSummariesFromFile", "FormatTicketHTML" }
         /\ call.source = "LoadSummariesFromFile") =>
        /\ DOMAIN ret.jiraInfo = DOMAIN call.file
        /\ \A key \in DOMAIN call.file :
              LET given == call.file[key]
                  info  == ret.jiraInfo[key]
              IN  /\ info.Key # EmptyString
                  /\ info.Key = (IF given.Key # EmptyString THEN given.Key ELSE key)
                  /\ info.URL # EmptyString
                  /\ given.URL # EmptyString => info.URL = given.URL
                  /\ given.URL = EmptyString =>
                        info.URL = BaseURL \o BrowsePath \o info.Key

=============================================================================
